------------------------- MODULE LexiconStoreProofs --------------------------
(***************************************************************************)
(* What holds of the lexicons for any dictionaries, contents and devices   *)
(* that packages come from, and for any number of operations and failures. *)
(*                                                                         *)
(* An operation is a plan of steps, and there are few plans (Plans); its   *)
(* phase, the step it comes to next, says what it has done.  Inv adds to   *)
(* the types what each phase owes to the four properties: which files are  *)
(* as they should be, which the operation knows and is going to write, and *)
(* which a restore is going to replace.  The properties are Inv in the     *)
(* phase of rest.                                                          *)
(*                                                                         *)
(* There is one lemma for each part of Inv, with one step for each action; *)
(* the lemmas ...Moves say once what the actions do, in terms of phases.   *)
(***************************************************************************)
EXTENDS LexiconStore, FiniteSetTheorems, SequenceTheorems, TLAPS

-----------------------------------------------------------------------------
(* The plans of the operations and what is left of them.                   *)
Removal(n) == [i \in 1..n |-> "remove"] \o <<List, "select", "end">>
Plans == {<<>>, <<"import">> \o Integration, <<"words">> \o Integration, Integration,
          <<"select", "end">>, <<"wanxiang", "wanxiang_pro", "end">>,
          <<"wanxiang_pro", "end">>, <<"drop", "end">>, <<"end">>}
         \cup {Removal(n) : n \in Nat}
PhaseOf(p) == IF p = <<>> THEN "rest" ELSE Head(p)
Phase == PhaseOf(app.plan)

\* The dialog removes n dictionaries before it writes the list.
LEMMA ManyRemovals ==
    ASSUME NEW n \in Nat
    PROVE  Removal(n) = [i \in 1 .. n + 3 |-> IF i <= n THEN "remove" ELSE
                            IF i = n + 1 THEN List ELSE IF i = n + 2 THEN "select" ELSE "end"]
BY DEF Removal

\* What is put before the steps of an integration.
LEMMA Prefixed ==
    ASSUME NEW x \in {"import", "words"}
    PROVE  <<x>> \o Integration = <<x, "read", List, "select", "end">>
<1> DEFINE t == <<"read", List, "select", "end">>
           s == <<x>> \o t
           u == <<x, "read", List, "select", "end">>
<1>1. <<x>> \in Seq(Steps) /\ t \in Seq(Steps) /\ u \in Seq(Steps)
    BY DEF Steps, Writes
<1>2. Len(<<x>>) = 1 /\ Len(t) = 4 /\ Len(u) = 5
    OBVIOUS
<1>3. s \in Seq(Steps) /\ Len(s) = 5
    BY <1>1, <1>2, ConcatProperties
<1>4. \A i \in 1 .. 5 : s[i] = IF i <= 1 THEN <<x>>[i] ELSE t[i - 1]
    BY <1>1, <1>2, ConcatProperties
<1>5. \A i \in 1 .. 5 : s[i] = u[i]
  <2> SUFFICES ASSUME NEW i \in 1 .. 5 PROVE s[i] = u[i]
      OBVIOUS
  <2>1. i = 1 \/ i = 2 \/ i = 3 \/ i = 4 \/ i = 5
      OBVIOUS
  <2> HIDE DEF s
  <2> QED BY <1>4, <2>1
<1>6. s = u
  <2> HIDE DEF s, u
  <2> QED BY <1>1, <1>2, <1>3, <1>5, SeqEqual
<1> QED BY <1>6 DEF Integration

\* The rest of a plan of three steps.
LEMMA TailOfThree ==
    ASSUME NEW a \in Steps, NEW b \in Steps, NEW c \in Steps
    PROVE  Tail(<<a, b, c>>) = <<b, c>>
<1> DEFINE s == Tail(<<a, b, c>>)
<1>1. <<a, b, c>> \in Seq(Steps) /\ <<a, b, c>> # <<>> /\ <<b, c>> \in Seq(Steps)
      /\ Len(<<a, b, c>>) = 3 /\ Len(<<b, c>>) = 2
  <2> HIDE DEF s
  <2> QED OBVIOUS
<1>2. s \in Seq(Steps) /\ Len(s) = 2 /\ \A i \in 1 .. 2 : s[i] = <<a, b, c>>[i + 1]
  <2>1. s \in Seq(Steps) /\ Len(s) = 3 - 1
      BY <1>1, HeadTailProperties
  <2>2. \A i \in 1 .. Len(s) : s[i] = <<a, b, c>>[i + 1]
      BY <1>1, HeadTailProperties
  <2> HIDE DEF s
  <2> QED BY <2>1, <2>2
<1>3. \A i \in 1 .. 2 : s[i] = <<b, c>>[i]
    BY <1>2
<1> HIDE DEF s
<1>4. s = <<b, c>>
    BY <1>1, <1>2, <1>3, SeqEqual
<1> QED BY <1>4 DEF s

\* What is left of a plan is one, and which step comes after which.
LEMMA PlanSteps ==
    ASSUME NEW p \in Plans
    PROVE  /\ p \in Seq(Steps)
           /\ p = <<>> <=> PhaseOf(p) = "rest"
           /\ PhaseOf(p) \in Steps \cup {"rest"}
           /\ PhaseOf(p) = "end" => Tail(p) = <<>>
           /\ p # <<>> => Tail(p) \in Plans
           /\ PhaseOf(p) \in {"import", "words"} => Tail(p) = Integration
           /\ PhaseOf(p) = "read" => PhaseOf(Tail(p)) = List
           /\ PhaseOf(p) = List => PhaseOf(Tail(p)) = "select"
           /\ PhaseOf(p) = "remove" => PhaseOf(Tail(p)) \in {"remove", List}
           /\ PhaseOf(p) = "wanxiang" => PhaseOf(Tail(p)) = "wanxiang_pro"
           /\ PhaseOf(p) \in {"wanxiang_pro", "drop"} => PhaseOf(Tail(p)) = "end"
<1>0. Integration = <<"read", List, "select", "end">>
    BY DEF Integration
<1>1. CASE p = <<"import">> \o Integration
  <2>1. p = <<"import", "read", List, "select", "end">>
      BY Prefixed, <1>1
  <2>2. PhaseOf(p) = "import" /\ Tail(p) = Integration
      BY <1>0, <2>1 DEF PhaseOf
  <2>3. p \in Seq(Steps)
      BY <2>1 DEF Steps, Writes, Schemas, List
  <2> QED BY <2>1, <2>2, <2>3 DEF Plans, List, Steps, Writes
<1>2. CASE p = <<"words">> \o Integration
  <2>1. p = <<"words", "read", List, "select", "end">>
      BY Prefixed, <1>2
  <2>2. PhaseOf(p) = "words" /\ Tail(p) = Integration
      BY <1>0, <2>1 DEF PhaseOf
  <2>3. p \in Seq(Steps)
      BY <2>1 DEF Steps, Writes, Schemas, List
  <2> QED BY <2>1, <2>2, <2>3 DEF Plans, List, Steps, Writes
<1>3. CASE p = Integration
  <2>1. PhaseOf(p) = "read" /\ Tail(p) = <<List, "select", "end">>
      BY <1>0, <1>3 DEF PhaseOf
  <2>2. Tail(p) = Removal(0)
    <3>1. <<List, "select", "end">> = [i \in 1..3 |-> IF i = 1 THEN List
                                           ELSE IF i = 2 THEN "select" ELSE "end"]
        OBVIOUS
    <3>2. Removal(0) = [i \in 1 .. 0 + 3 |-> IF i <= 0 THEN "remove" ELSE
               IF i = 0 + 1 THEN List ELSE IF i = 0 + 2 THEN "select" ELSE "end"]
        BY ManyRemovals
    <3>3. Removal(0) = [i \in 1..3 |-> IF i = 1 THEN List
                                           ELSE IF i = 2 THEN "select" ELSE "end"]
        BY <3>2
    <3> QED BY <2>1, <3>1, <3>3, Zenon
  <2>3. PhaseOf(Tail(p)) = List
    <3>1. PhaseOf(<<List, "select", "end">>) = List
        BY DEF PhaseOf
    <3> QED BY <2>1, <3>1, Zenon
  <2>4. p \in Seq(Steps)
      BY <1>0, <1>3 DEF Steps, Writes, Schemas, List
  <2> QED BY <1>0, <1>3, <2>1, <2>2, <2>3, <2>4 DEF Plans, List, Steps, Writes
<1>4. CASE p = <<"select", "end">>
  <2>1. PhaseOf(p) = "select" /\ Tail(p) = <<"end">>
      BY <1>4 DEF PhaseOf
  <2>2. p \in Seq(Steps)
      BY <1>4 DEF Steps
  <2> QED BY <1>4, <2>1, <2>2 DEF Plans, List, Steps, Writes
<1>5. CASE p = <<"wanxiang", "wanxiang_pro", "end">>
  <2>1. PhaseOf(p) = "wanxiang" /\ Tail(p) = <<"wanxiang_pro", "end">>
      BY <1>5 DEF PhaseOf
  <2>2. PhaseOf(Tail(p)) = "wanxiang_pro"
    <3>1. PhaseOf(<<"wanxiang_pro", "end">>) = "wanxiang_pro"
        BY DEF PhaseOf
    <3> QED BY <2>1, <3>1, Zenon
  <2>3. p \in Seq(Steps)
      BY <1>5 DEF Steps, Writes, Schemas
  <2> QED BY <1>5, <2>1, <2>2, <2>3 DEF Plans, List, Steps, Writes, Schemas
<1>6. CASE p = <<"wanxiang_pro", "end">>
  <2>1. PhaseOf(p) = "wanxiang_pro" /\ Tail(p) = <<"end">> /\ PhaseOf(<<"end">>) = "end"
      BY <1>6 DEF PhaseOf
  <2>2. p \in Seq(Steps)
      BY <1>6 DEF Steps, Writes, Schemas
  <2> QED BY <1>6, <2>1, <2>2 DEF Plans, List, Steps, Writes, Schemas
<1>7. CASE p = <<"drop", "end">>
  <2>1. PhaseOf(p) = "drop" /\ Tail(p) = <<"end">> /\ PhaseOf(<<"end">>) = "end"
      BY <1>7 DEF PhaseOf
  <2>2. p \in Seq(Steps)
      BY <1>7 DEF Steps
  <2> QED BY <1>7, <2>1, <2>2 DEF Plans, List, Steps
<1>8. CASE p = <<"end">>
  <2>1. PhaseOf(p) = "end" /\ Tail(p) = <<>>
      BY <1>8 DEF PhaseOf
  <2>2. p \in Seq(Steps)
      BY <1>8 DEF Steps
  <2> QED BY <1>8, <2>1, <2>2 DEF Plans, List, Steps
<1>9. ASSUME NEW n \in Nat, p = Removal(n)
      PROVE  /\ p \in Seq(Steps) /\ p # <<>> /\ Tail(p) \in Plans
             /\ n = 0 => PhaseOf(p) = List /\ PhaseOf(Tail(p)) = "select"
             /\ n # 0 => PhaseOf(p) = "remove" /\ PhaseOf(Tail(p)) \in {"remove", List}
  <2>1. p = [i \in 1 .. n + 3 |-> IF i <= n THEN "remove" ELSE
               IF i = n + 1 THEN List ELSE IF i = n + 2 THEN "select" ELSE "end"]
      BY <1>9, ManyRemovals
  <2>2. p \in Seq(Steps)
    <3>1. {"remove", List, "select", "end"} \subseteq Steps
        BY DEF Steps, Writes
    <3>2. p \in [1 .. n + 3 -> Steps]
        BY <2>1, <3>1
    <3> QED BY <3>2
  <2>3. Len(p) = n + 3 /\ p # <<>> /\ Head(p) = p[1]
      BY <2>1
  <2>4. /\ Tail(p) \in Seq(Steps) /\ Len(Tail(p)) = n + 2
        /\ Tail(p) = [i \in 1 .. n + 2 |-> p[i + 1]]
    <3>1. Tail(p) \in Seq(Steps) /\ Len(Tail(p)) = n + 2
          /\ \A i \in 1 .. n + 2 : Tail(p)[i] = p[i + 1]
        BY <2>2, <2>3, HeadTailProperties
    <3>2. Tail(p) = [i \in 1 .. n + 2 |-> Tail(p)[i]]
      <4>1. \A q \in Seq(Steps) : q = [i \in 1 .. Len(q) |-> q[i]]
          OBVIOUS
      <4> QED BY <3>1, <4>1, Zenon
    <3> QED BY <3>1, <3>2
  <2>5. CASE n = 0
    <3>1. Tail(p) = <<"select", "end">>
      <4>1. p = Removal(0)
          BY <1>9, <2>5
      <4>2. p = [i \in 1..3 |-> IF i = 1 THEN List ELSE IF i = 2 THEN "select" ELSE "end"]
          BY <2>1, <2>5
      <4>3. <<List, "select", "end">> = [i \in 1..3 |-> IF i = 1 THEN List
                                           ELSE IF i = 2 THEN "select" ELSE "end"]
          OBVIOUS
      <4>4. Tail(<<List, "select", "end">>) = <<"select", "end">>
          BY TailOfThree DEF Steps, Writes
      <4> QED BY <4>2, <4>3, <4>4, Zenon
    <3>2. PhaseOf(p) = List
        BY <2>1, <2>3, <2>5 DEF PhaseOf
    <3>3. PhaseOf(<<"select", "end">>) = "select"
        BY DEF PhaseOf
    <3> QED BY <2>2, <2>3, <2>5, <3>1, <3>2, <3>3 DEF Plans
  <2>6. CASE n # 0
    <3>1. n - 1 \in Nat
        BY <2>6
    <3>2. Tail(p) = Removal(n - 1)
      <4>1. Removal(n - 1) = [i \in 1 .. (n - 1) + 3 |-> IF i <= n - 1 THEN "remove" ELSE
               IF i = (n - 1) + 1 THEN List ELSE IF i = (n - 1) + 2 THEN "select" ELSE "end"]
          BY <3>1, ManyRemovals
      <4> QED BY <2>1, <2>4, <4>1
    <3>3. PhaseOf(p) = "remove"
        BY <2>1, <2>3, <2>6 DEF PhaseOf
    <3>4. PhaseOf(Tail(p)) \in {"remove", List}
      <4>1. Tail(p) # <<>> /\ Head(Tail(p)) = Tail(p)[1]
        <5>1. \A q \in Seq(Steps) : Len(q) > 0 => q # <<>> /\ Head(q) = q[1]
            OBVIOUS
        <5>2. n + 2 > 0
            OBVIOUS
        <5> QED BY <2>4, <5>1, <5>2, Zenon
      <4>2. Tail(p)[1] = p[2]
          BY <2>4
      <4>3. p[2] \in {"remove", List}
          BY <2>1, <2>6
      <4> QED BY <4>1, <4>2, <4>3, Zenon DEF PhaseOf
    <3> QED BY <2>2, <2>3, <2>6, <3>1, <3>2, <3>3, <3>4 DEF Plans
  <2> QED BY <2>5, <2>6
<1>10. CASE \E n \in Nat : p = Removal(n)
  <2>1. PICK n \in Nat : p = Removal(n)
      BY <1>10
  <2> QED BY <1>9, <2>1 DEF List, Steps, Writes, Schemas
<1>11. CASE p = <<>>
    BY <1>11 DEF PhaseOf, List, Steps, Plans
<1> QED BY <1>1, <1>2, <1>3, <1>4, <1>5, <1>6, <1>7, <1>8, <1>10, <1>11 DEF Plans

\* The plans that operations start with and that Select chooses from.
LEMMA NewPlans ==
    /\ \A p \in {<<"import">> \o Integration, <<"words">> \o Integration, Integration,
                <<"drop", "end">>, <<"wanxiang", "wanxiang_pro", "end">>, <<"end">>, <<>>} :
          p \in Plans
    /\ \A n \in Nat : Removal(n) \in Plans /\ PhaseOf(Removal(n)) \in {"remove", List}
    /\ PhaseOf(<<"import">> \o Integration) = "import"
    /\ PhaseOf(<<"words">> \o Integration) = "words"
    /\ PhaseOf(Integration) = "read"
    /\ PhaseOf(<<"wanxiang", "wanxiang_pro", "end">>) = "wanxiang"
    /\ PhaseOf(<<"drop", "end">>) = "drop" /\ PhaseOf(<<"end">>) = "end"
    /\ PhaseOf(<<>>) = "rest"
<1>1. ASSUME NEW n \in Nat
      PROVE  PhaseOf(Removal(n)) \in {"remove", List}
  <2>1. Removal(n) = [i \in 1 .. n + 3 |-> IF i <= n THEN "remove" ELSE
               IF i = n + 1 THEN List ELSE IF i = n + 2 THEN "select" ELSE "end"]
      BY ManyRemovals
  <2>2. Len(Removal(n)) = n + 3 /\ Removal(n) # <<>> /\ Head(Removal(n)) = Removal(n)[1]
      BY <2>1
  <2> QED BY <2>1, <2>2 DEF PhaseOf
<1>2. <<"import">> \o Integration = <<"import", "read", List, "select", "end">>
      /\ <<"words">> \o Integration = <<"words", "read", List, "select", "end">>
    BY Prefixed
<1> QED BY <1>1, <1>2 DEF Plans, PhaseOf, Integration

-----------------------------------------------------------------------------
(* The inductive invariant.                                                *)

\* The file that is open.
Writing == IF app.opened THEN FileOf(Step) ELSE NoFile

Apps == [plan : Seq(Steps), opened : BOOLEAN, ok : BOOLEAN, dialog : BOOLEAN,
         rows : [Tables -> {"none", "off", "on", "removed"}],
         name : Tables, content : Contents, entries : Entries,
         flags : Switches, tables : SUBSET Tables]
Syncs == [on : BOOLEAN, todo : SUBSET Files, file : Files \cup {NoFile},
          other : Others \cup {NoFile}, whole : BOOLEAN]
Built == UNION {[s -> Contents] : s \in SUBSET Tables}
Engines == [hears : BOOLEAN, timer : BOOLEAN, busy : BOOLEAN,
            of : [switches : Switches, use : BOOLEAN], built : {NoFile} \cup Built]
DiskOK == DOMAIN disk = Files /\ \A f \in Files : disk[f] \in States(f)
AppOK == app \in Apps /\ app.plan \in Plans /\ (app.opened => Phase \in Writes)
RestOK ==
    /\ switches \in Switches /\ owed \in BOOLEAN /\ wish \in Entries
    /\ lost \in BOOLEAN /\ upset \in BOOLEAN
    /\ off \subseteq {"failed", "reset", "restored"}
TypeInv == DiskOK /\ AppOK /\ sync \in Syncs /\ engine \in Engines /\ RestOK

\* Where an operation has come to: an import has its dialog, which the others
\* have not; what it removes is not in the list it will write; and until files
\* were written by two at a time, none is under way during a restore.
Orderly ==
    /\ Phase \notin {"rest", "end"} => app.ok
    /\ Phase = "import" => app.dialog
    /\ Phase \in {"words", "remove"} => ~app.dialog
    /\ Phase \in Schemas => app.tables # {}
    /\ Phase = "remove" => \A t \in Removed : app.entries[t] = "none"
    /\ ~upset /\ sync.on => Phase = "rest"

\* A restore has written what it no longer has to do, and only that.
Restoring ==
    /\ sync.on =>
        /\ sync.other \in Others
        /\ sync.todo \subseteq Holds(sync.other)
        /\ sync.file \in {NoFile} \cup (Holds(sync.other) \ sync.todo)
        /\ sync.whole => {List, UserWords} \cup Schemas \subseteq Holds(sync.other)
    /\ ~sync.on => sync.file = NoFile /\ sync.todo = {}
    /\ sync.on /\ ~upset =>
        /\ \A f \in Holds(sync.other) \ sync.todo :
              f # sync.file => disk[f] = sync.other.disk[f]
        /\ "reset" \notin off => switches = sync.other.switches

\* The aggregates are the ones of the switches, the list and the words, in the
\* phases in which these are as they were; and later on, what the operation
\* has found is what they say now.
Unchanged == Phase \in {"rest", "end"} \/ (Phase = "import" /\ ~app.opened)
Aggregating ==
    off = {} =>
        /\ Unchanged => \A s \in Schemas : disk[s] = Aggregate(Wanted)
        /\ Phase = List /\ app.opened => app.flags = switches
        /\ Phase \in {"select", "drop"} \cup Schemas =>
              disk[List] = app.entries /\ app.flags = switches
        /\ Phase \in Schemas => app.tables = Wanted
        /\ Phase = "wanxiang_pro" => disk["wanxiang"] = Aggregate(app.tables)
        /\ Phase = "drop" => Wanted = {}

\* What the list, the rows of the dialog and the aggregates name is there and
\* whole, or is going to be written by the operation or by the restore.
Good(t) == disk[t] \in Contents
Due(t) == t = Writing \/ t \in sync.todo \cup {sync.file}
GoodAggregate(s) ==
    \/ s = sync.file \/ disk[s] = NoFile
    \/ disk[s] # Cut /\ \A t \in disk[s].imports : Good(t) \/ Due(t)
ListedGood == \A t \in Tables : ListOf(disk)[t] # "none" => Good(t) \/ Due(t)
RowsGood == \A t \in Tables : app.rows[t] \in {"off", "on"} => Good(t) \/ Due(t)
EntriesGood == \A t \in Tables : app.entries[t] # "none" => Good(t)
Whole ==
    ~upset =>
        /\ Phase \notin {"remove", List} => ListedGood
        /\ Phase \in {"rest", "import", "end"} => \A s \in Schemas : GoodAggregate(s)
        /\ Phase = "wanxiang_pro" => GoodAggregate("wanxiang")
        /\ RowsGood
        /\ Phase \in {"remove", List, "select"} => EntriesGood
        /\ Phase = "read" /\ app.dialog => Good(app.name)
        /\ Phase \in Schemas => \A t \in app.tables : Good(t)

\* The list is the one that was confirmed, or is going to be.
Target == IF app.dialog /\ app.ok THEN [wish EXCEPT ![app.name] = "on"] ELSE wish
Recorded ==
    ~upset =>
        /\ sync.on => List \in Holds(sync.other) \/ ListOf(disk) = wish
        /\ ~sync.on /\ Phase \in {"rest", "import", "words", "read"} => ListOf(disk) = wish
        /\ Phase \in {"remove", List} => app.entries = Target
        /\ Phase \in {"select", "drop", "end"} \cup Schemas => ListOf(disk) = Target

\* Unless something is on its way, the engine has built what the files say, or
\* is building with the settings as they are.
Quietly ==
    \/ Phase = "rest"
    \/ Phase = "import" /\ ~app.opened
    \/ Phase = "end" /\ app.dialog /\ ~app.ok
Pending == upset \/ off # {} \/ lost \/ owed \/ sync.on \/ engine.timer \/ ~Quietly
Serving == ~Pending => IF engine.busy THEN engine.of = Chosen ELSE InForce

Inv == TypeInv /\ Orderly /\ Restoring /\ Aggregating /\ Whole /\ Recorded /\ Serving

-----------------------------------------------------------------------------
\* The files are the list, the dictionaries and the aggregates.
LEMMA FileKinds ==
    /\ List \in Files /\ UserWords \in Tables /\ Tables \subseteq Files /\ Schemas \subseteq Files
    /\ List \notin Tables /\ List \notin Schemas /\ \A t \in Tables : t \notin Schemas
    /\ States(List) = {NoFile} \cup Entries
    /\ \A s \in Schemas : States(s) = {NoFile, Cut} \cup Aggregates
    /\ \A t \in Tables : States(t) = {NoFile, Cut} \cup Contents
    /\ \A f \in Files : f = List \/ f \in Tables \/ f \in Schemas
BY LexiconAssumption DEF Files, States

\* Values that a file or the application can have.
LEMMA Values ==
    /\ NoEntries \in Entries /\ NoFile # Cut
    /\ \A x \in Entries \cup Aggregates \cup Contents : x # NoFile /\ x # Cut
    /\ \A f \in Files : Truncated(f) \in States(f)
    /\ Idle \in Apps
<1>1. NoEntries \in Entries
    BY DEF NoEntries, Entries
<1>2. \A f \in Files : Truncated(f) \in States(f)
    BY <1>1 DEF Truncated, States
<1>3. Idle \in Apps
  <2>1. <<>> \in Seq(Steps)
      OBVIOUS
  <2>2. NoEntries \in [Tables -> {"none", "off", "on", "removed"}]
      BY DEF NoEntries
  <2>3. [user |-> TRUE, imported |-> TRUE] \in Switches
      BY DEF Switches
  <2> QED BY <1>1, <2>1, <2>2, <2>3, LexiconAssumption DEF Idle, Apps
<1> QED BY <1>1, <1>2, <1>3, LexiconAssumption

\* The file a step writes, and what it writes.
LEMMA Targets ==
    /\ FileOf("import") = app.name /\ FileOf("words") = UserWords
    /\ \A f \in {List} \cup Schemas : FileOf(f) = f
    /\ ValueOf("import") = app.content /\ ValueOf("words") = app.content
    /\ ValueOf(List) = app.entries
    /\ \A s \in Schemas : ValueOf(s) = [imports |-> app.tables]
BY DEF FileOf, ValueOf, List, Schemas

\* The step of an operation is its phase.
LEMMA Stepping ==
    ASSUME AppOK
    PROVE  /\ app.plan = <<>> <=> Phase = "rest"
           /\ app.plan # <<>> => Step = Phase
           /\ Phase \in Steps \cup {"rest"}
           /\ app.opened => app.plan # <<>> /\ Step \in Writes
           /\ app.plan # <<>> => Tail(app.plan) \in Plans /\ Tail(app.plan) \in Seq(Steps)
<1>1. /\ app.plan = <<>> <=> Phase = "rest"
      /\ Phase \in Steps \cup {"rest"}
      /\ app.plan # <<>> => Tail(app.plan) \in Plans
    BY PlanSteps DEF AppOK, Phase
<1>2. app.plan # <<>> => Tail(app.plan) \in Seq(Steps)
    BY <1>1, PlanSteps
<1>3. app.plan # <<>> => Step = Phase
    BY DEF Phase, PhaseOf, Step
<1>4. "rest" \notin Writes
    BY DEF Writes, Schemas, List
<1> QED BY <1>1, <1>2, <1>3, <1>4 DEF AppOK

\* What a write leaves in its file is neither nothing nor cut off.
LEMMA Written ==
    ASSUME TypeInv, app.opened
    PROVE  /\ FileOf(Step) \in Files
           /\ ValueOf(Step) \in States(FileOf(Step)) \ {NoFile, Cut}
<1>1. Step \in {"import", "words", List} \cup Schemas
    BY Stepping DEF TypeInv, Writes
<1>2. app.name \in Tables /\ app.content \in Contents /\ app.entries \in Entries
      /\ [imports |-> app.tables] \in Aggregates
    BY DEF TypeInv, AppOK, Apps, Aggregates
<1>3. CASE Step \in {"import", "words"}
    BY <1>2, <1>3, Targets, FileKinds, Values
<1>4. CASE Step = List
    BY <1>2, <1>4, Targets, FileKinds, Values
<1>5. CASE Step \in Schemas
    BY <1>2, <1>5, Targets, FileKinds, Values
<1> QED BY <1>1, <1>3, <1>4, <1>5

\* The list that a file holds.
LEMMA ListTyped ==
    ASSUME NEW d, d[List] \in States(List)
    PROVE  ListOf(d) \in Entries
BY FileKinds, Values DEF ListOf

\* The types of what the engine is told and of what it builds.
LEMMA ChosenTyped ==
    ASSUME switches \in Switches
    PROVE  Chosen \in [switches : Switches, use : BOOLEAN]
BY DEF Chosen, Switches

LEMMA CompiledTyped ==
    ASSUME DiskOK, NEW use \in BOOLEAN
    PROVE  Compiled(use) \in {NoFile} \cup Built
<1>1. [t \in {} |-> Blank] \in Built
  <2>1. [t \in {} |-> Blank] \in [{} -> Contents]
      OBVIOUS
  <2> QED BY <2>1 DEF Built
<1>2. ASSUME CanCompile
      PROVE  [t \in disk[Scheme].imports |-> disk[t]] \in Built
  <2>1. disk[Scheme] \in Aggregates
    <3>1. Scheme \in Schemas /\ Scheme \in Files
        BY LexiconAssumption, FileKinds
    <3>2. disk[Scheme] \in States(Scheme)
        BY <3>1 DEF DiskOK
    <3> QED BY <1>2, <3>1, <3>2, FileKinds DEF CanCompile
  <2>2. disk[Scheme].imports \in SUBSET Tables
      BY <2>1 DEF Aggregates
  <2>3. [t \in disk[Scheme].imports |-> disk[t]] \in [disk[Scheme].imports -> Contents]
      BY <1>2 DEF CanCompile
  <2> QED BY <2>2, <2>3 DEF Built
<1> QED BY <1>1, <1>2 DEF Compiled
-----------------------------------------------------------------------------
LEMMA DiskNext ==
    ASSUME TypeInv, Restoring, Next
    PROVE  DiskOK'
<1>1. ASSUME NEW k \in {"user", "imported"}, NEW saved \in BOOLEAN, Toggle(k, saved)
      PROVE  DiskOK'
    BY <1>1 DEF Toggle, Start, TypeInv, DiskOK
<1>2. ASSUME NEW c \in Contents, EditWords(c)
      PROVE  DiskOK'
    BY <1>2 DEF EditWords, Start, TypeInv, DiskOK
<1>3. ASSUME OpenDialog PROVE DiskOK'
    BY <1>3 DEF OpenDialog, TypeInv, DiskOK
<1>4. ASSUME Cancel PROVE DiskOK'
    BY <1>4 DEF Cancel, TypeInv, DiskOK
<1>5. ASSUME Done PROVE DiskOK'
    BY <1>5 DEF Done, Start, TypeInv, DiskOK
<1>6. ASSUME ResetDefaultSettings PROVE DiskOK'
    BY <1>6 DEF ResetDefaultSettings, TypeInv, DiskOK
<1>7. ASSUME NEW t \in Tables, NEW state \in {"off", "on", "removed"}, ChangeRow(t, state)
      PROVE  DiskOK'
    BY <1>7 DEF ChangeRow, TypeInv, DiskOK
<1>8. ASSUME NEW t \in Tables, NEW c \in Contents, ImportManagedDictionary(t, c)
      PROVE  DiskOK'
    BY <1>8 DEF ImportManagedDictionary, Start, TypeInv, DiskOK
<1>9. ASSUME Open PROVE DiskOK'
  <2>1. app.opened \in BOOLEAN /\ Truncated(FileOf(Step)) \in States(FileOf(Step))
    <3>1. Step \in {"import", "words", List} \cup Schemas
        BY <1>9 DEF Open, Writes
    <3>2. FileOf(Step) \in Files
        BY <3>1, Targets, FileKinds DEF TypeInv, AppOK, Apps
    <3> QED BY <3>2, Values DEF TypeInv, AppOK, Apps
  <2> QED BY <1>9, <2>1 DEF Open, TypeInv, DiskOK
<1>10. ASSUME Fill PROVE DiskOK'
    BY <1>10, Written DEF Fill, TypeInv, DiskOK
<1>11. ASSUME Read PROVE DiskOK'
    BY <1>11 DEF Read, TypeInv, DiskOK
<1>12. ASSUME Select PROVE DiskOK'
    BY <1>12 DEF Select, TypeInv, DiskOK
<1>13. ASSUME End PROVE DiskOK'
    BY <1>13 DEF End, TypeInv, DiskOK
<1>14. ASSUME CloseApp PROVE DiskOK'
    BY <1>14 DEF CloseApp, TypeInv, DiskOK
<1>15. ASSUME PostApply PROVE DiskOK'
    BY <1>15 DEF PostApply, TypeInv, DiskOK
<1>16. ASSUME NEW noticed \in BOOLEAN, WriteFails(noticed)
      PROVE  DiskOK'
    BY <1>16 DEF WriteFails, TypeInv, DiskOK
<1>17. ASSUME NEW kept \in SUBSET Schemas, Drop(kept)
      PROVE  DiskOK'
    BY <1>17, FileKinds DEF Drop, TypeInv, DiskOK
<1>18. ASSUME NEW t \in Tables, NEW gone \in BOOLEAN, Remove(t, gone)
      PROVE  DiskOK'
    BY <1>18, FileKinds DEF Remove, TypeInv, DiskOK
<1>19. ASSUME NEW o \in Others, BeginRestore(o)
      PROVE  DiskOK'
    BY <1>19 DEF BeginRestore, TypeInv, DiskOK
<1>20. ASSUME NEW f \in Files, OpenRestored(f)
      PROVE  DiskOK'
    BY <1>20, Values DEF OpenRestored, TypeInv, DiskOK
<1>21. ASSUME FillRestored PROVE DiskOK'
  <2>1. /\ sync.other \in Others /\ sync.file \in Files
        /\ sync.other.disk[sync.file] \in States(sync.file)
      BY <1>21, LexiconAssumption DEF FillRestored, Restoring, Holds
  <2> QED BY <1>21, <2>1 DEF FillRestored, TypeInv, DiskOK
<1>22. ASSUME EndRestore PROVE DiskOK'
    BY <1>22 DEF EndRestore, TypeInv, DiskOK
<1>23. ASSUME RestoreFails PROVE DiskOK'
    BY <1>23 DEF RestoreFails, TypeInv, DiskOK
<1>24. ASSUME TimerFires PROVE DiskOK'
    BY <1>24 DEF TimerFires, TypeInv, DiskOK
<1>25. ASSUME StartEngine PROVE DiskOK'
    BY <1>25 DEF StartEngine, TypeInv, DiskOK
<1>26. ASSUME StopEngine PROVE DiskOK'
    BY <1>26 DEF StopEngine, TypeInv, DiskOK
<1>27. ASSUME Compile PROVE DiskOK'
    BY <1>27 DEF Compile, TypeInv, DiskOK
<1> QED
    BY <1>1, <1>2, <1>3, <1>4, <1>5, <1>6, <1>7, <1>8, <1>9, <1>10, <1>11,
       <1>12, <1>13, <1>14, <1>15, <1>16, <1>17, <1>18, <1>19, <1>20,
       <1>21, <1>22, <1>23, <1>24, <1>25, <1>26, <1>27
    DEF Next, UserStep, AppStep, SyncStep, EngineStep

\* The rows and the lists that an operation takes from the file.
LEMMA ManifestTyped ==
    ASSUME TypeInv
    PROVE  /\ ReadManagedDictionaryManifest \in Entries
           /\ ReadManagedDictionaryManifest \in [Tables -> {"none", "off", "on", "removed"}]
           /\ NoEntries \in [Tables -> {"none", "off", "on", "removed"}]
<1>1. disk[List] \in States(List)
    BY FileKinds DEF TypeInv, DiskOK
<1>2. ReadManagedDictionaryManifest \in Entries
    BY <1>1, ListTyped DEF ReadManagedDictionaryManifest
<1> QED BY <1>2, Values DEF Entries

\* An operation that begins, and one that comes to its next step.
LEMMA StartTyped ==
    ASSUME AppOK, NEW a \in Apps, NEW plan \in Plans, Start(plan, a), PhaseOf(plan) # "rest"
    PROVE  /\ AppOK' /\ Phase' = PhaseOf(plan) /\ ~app'.opened /\ app'.ok
           /\ app' = [a EXCEPT !.plan = plan, !.ok = TRUE, !.opened = FALSE]
<1>1. app' = [a EXCEPT !.plan = plan, !.ok = TRUE, !.opened = FALSE]
    BY DEF Start
<1>2. plan \in Seq(Steps)
    BY PlanSteps
<1>3. app' \in Apps /\ app'.plan = plan /\ ~app'.opened /\ app'.ok
    BY <1>1, <1>2 DEF Apps
<1>4. Phase' = PhaseOf(plan)
    BY <1>3 DEF Phase
<1> QED BY <1>1, <1>3, <1>4 DEF AppOK

LEMMA Advance ==
    ASSUME AppOK, app.plan # <<>>, app' \in Apps, app'.plan = Tail(app.plan), ~app'.opened
    PROVE  AppOK' /\ Phase' = PhaseOf(Tail(app.plan))
<1>1. Tail(app.plan) \in Plans
    BY Stepping
<1> QED BY <1>1 DEF AppOK, Phase

\* The list that the rows of the dialog make.
LEMMA RowsTyped ==
    ASSUME TypeInv
    PROVE  RowEntries \in Entries
BY DEF TypeInv, AppOK, Apps, RowEntries, Entries

\* The steps keep the types of the application, ...
LEMMA AppNext ==
    ASSUME TypeInv, Next
    PROVE  AppOK'
<1>1. ASSUME NEW k \in {"user", "imported"}, NEW saved \in BOOLEAN, Toggle(k, saved)
      PROVE  AppOK'
  <2> DEFINE a == app
             plan == Integration
  <2>1. Start(plan, a)
      BY <1>1 DEF Toggle, Start
  <2>2. a \in Apps
      BY DEF TypeInv, AppOK
  <2>3. plan \in Plans /\ PhaseOf(plan) = "read"
      BY NewPlans
  <2>4. PhaseOf(plan) # "rest"
      BY <2>3 DEF List
  <2> HIDE DEF a, plan
  <2> QED BY <2>1, <2>2, <2>3, <2>4, StartTyped DEF TypeInv
<1>2. ASSUME NEW c \in Contents, EditWords(c)
      PROVE  AppOK'
  <2> DEFINE a == [app EXCEPT !.content = c]
             plan == <<"words">> \o Integration
  <2>1. Start(plan, a)
      BY <1>2 DEF EditWords, Start
  <2>2. a \in Apps
      BY DEF TypeInv, AppOK, Apps
  <2>3. plan \in Plans /\ PhaseOf(plan) = "words"
      BY NewPlans
  <2>4. PhaseOf(plan) # "rest"
      BY <2>3 DEF List
  <2> HIDE DEF a, plan
  <2> QED BY <2>1, <2>2, <2>3, <2>4, StartTyped DEF TypeInv
<1>3. ASSUME OpenDialog PROVE AppOK'
  <2>1. app' \in Apps /\ app'.plan = app.plan /\ app'.opened = app.opened
      BY <1>3, ManifestTyped DEF OpenDialog, TypeInv, AppOK, Apps
  <2> QED BY <2>1 DEF TypeInv, AppOK, Phase
<1>4. ASSUME Cancel PROVE AppOK'
  <2>1. app' \in Apps /\ app'.plan = app.plan /\ app'.opened = app.opened
      BY <1>4, ManifestTyped DEF Cancel, TypeInv, AppOK, Apps
  <2> QED BY <2>1 DEF TypeInv, AppOK, Phase
<1>5. ASSUME Done PROVE AppOK'
  <2> DEFINE a == [app EXCEPT !.dialog = FALSE, !.entries = RowEntries]
             plan == [i \in 1..Cardinality(Removed) |-> "remove"] \o <<List, "select", "end">>
  <2>1. Start(plan, a)
      BY <1>5 DEF Done
  <2>2. a \in Apps
      BY RowsTyped DEF TypeInv, AppOK, Apps
  <2>3. plan \in Plans /\ PhaseOf(plan) \in {"remove", List}
    <3>1. plan = Removal(Cardinality(Removed))
        BY DEF Removal
    <3>2. Cardinality(Removed) \in Nat
        BY FS_Subset, FS_CardinalityType, LexiconAssumption DEF Removed
    <3> HIDE DEF plan
    <3> QED BY <3>1, <3>2, NewPlans
  <2>4. PhaseOf(plan) # "rest"
      BY <2>3 DEF List
  <2> HIDE DEF a, plan
  <2> QED BY <2>1, <2>2, <2>3, <2>4, StartTyped DEF TypeInv
<1>6. ASSUME ResetDefaultSettings PROVE AppOK'
    BY <1>6 DEF ResetDefaultSettings, TypeInv, AppOK, Phase
<1>7. ASSUME NEW t \in Tables, NEW state \in {"off", "on", "removed"}, ChangeRow(t, state)
      PROVE  AppOK'
  <2>1. app' \in Apps /\ app'.plan = app.plan /\ app'.opened = app.opened
      BY <1>7 DEF ChangeRow, TypeInv, AppOK, Apps
  <2> QED BY <2>1 DEF TypeInv, AppOK, Phase
<1>8. ASSUME NEW t \in Tables, NEW c \in Contents, ImportManagedDictionary(t, c)
      PROVE  AppOK'
  <2> DEFINE a == [app EXCEPT !.name = t, !.content = c]
             plan == <<"import">> \o Integration
  <2>1. Start(plan, a)
      BY <1>8 DEF ImportManagedDictionary, Start
  <2>2. a \in Apps
      BY DEF TypeInv, AppOK, Apps
  <2>3. plan \in Plans /\ PhaseOf(plan) = "import"
      BY NewPlans
  <2>4. PhaseOf(plan) # "rest"
      BY <2>3 DEF List
  <2> HIDE DEF a, plan
  <2> QED BY <2>1, <2>2, <2>3, <2>4, StartTyped DEF TypeInv
<1>9. ASSUME Open PROVE AppOK'
  <2>1. app' \in Apps /\ app'.plan = app.plan /\ app.plan # <<>> /\ Step \in Writes
      BY <1>9 DEF Open, TypeInv, AppOK, Apps, RestOK
  <2> QED BY <2>1, Stepping DEF TypeInv, AppOK, Phase
<1>10. ASSUME Fill PROVE AppOK'
  <2>1. app.plan # <<>> /\ app' \in Apps /\ app'.plan = Tail(app.plan) /\ ~app'.opened
      BY <1>10, Stepping DEF Fill, TypeInv, AppOK, Apps
  <2> QED BY <2>1, Advance DEF TypeInv
<1>11. ASSUME Read PROVE AppOK'
  <2>1. ReadManagedDictionaryManifest \in Entries
        /\ [ReadManagedDictionaryManifest EXCEPT ![app.name] = "on"] \in Entries
      BY ManifestTyped DEF Entries
  <2>2. ~app.opened
      BY <1>11, Stepping DEF Read, TypeInv, Writes, Schemas, List
  <2>3. app.plan # <<>> /\ app' \in Apps /\ app'.plan = Tail(app.plan) /\ ~app'.opened
      BY <1>11, <2>1, <2>2, Stepping DEF Read, TypeInv, AppOK, Apps
  <2> QED BY <2>3, Advance DEF TypeInv
<1>12. ASSUME Select PROVE AppOK'
  <2>1. \A q \in {<<"drop", "end">>, <<"wanxiang", "wanxiang_pro", "end">>} :
           q \in Plans /\ q \in Seq(Steps)
      BY NewPlans, PlanSteps
  <2>2. ~app.opened
      BY <1>12, Stepping DEF Select, TypeInv, Writes, Schemas, List
  <2>3. app' \in Apps /\ app'.plan \in Plans /\ ~app'.opened
      BY <1>12, <2>1, <2>2 DEF Select, TypeInv, AppOK, Apps, EnabledTables
  <2> QED BY <2>3 DEF AppOK
<1>13. ASSUME End PROVE AppOK'
  <2>1. <<>> \in Plans /\ <<>> \in Seq(Steps)
      BY NewPlans, PlanSteps
  <2>2. ~app.opened
      BY <1>13, Stepping DEF End, TypeInv, Writes, Schemas, List
  <2>3. ReadManagedDictionaryManifest \in [Tables -> {"none", "off", "on", "removed"}]
        /\ NoEntries \in [Tables -> {"none", "off", "on", "removed"}]
      BY ManifestTyped
  <2>4. app' \in Apps /\ app'.plan \in Plans /\ ~app'.opened
      BY <1>13, <2>1, <2>2, <2>3 DEF End, TypeInv, AppOK, Apps
  <2> QED BY <2>4 DEF AppOK
<1>14. ASSUME CloseApp PROVE AppOK'
  <2>1. app' \in Apps /\ app'.plan \in Plans /\ ~app'.opened
      BY <1>14, Values, NewPlans DEF CloseApp, Idle
  <2> QED BY <2>1 DEF AppOK
<1>15. ASSUME PostApply PROVE AppOK'
    BY <1>15 DEF PostApply, TypeInv, AppOK, Phase
<1>16. ASSUME NEW noticed \in BOOLEAN, WriteFails(noticed)
      PROVE  AppOK'
  <2>1. <<"end">> \in Plans /\ <<"end">> \in Seq(Steps)
      BY NewPlans, PlanSteps
  <2>2. app' \in Apps /\ app'.plan \in Plans /\ ~app'.opened
      BY <1>16, <2>1, Stepping DEF WriteFails, TypeInv, AppOK, Apps
  <2> QED BY <2>2 DEF AppOK
<1>17. ASSUME NEW kept \in SUBSET Schemas, Drop(kept)
      PROVE  AppOK'
  <2>2. ~app.opened
      BY <1>17, Stepping DEF Drop, TypeInv, Writes, Schemas, List
  <2>3. app.plan # <<>> /\ app' \in Apps /\ app'.plan = Tail(app.plan) /\ ~app'.opened
      BY <1>17, <2>2, Stepping DEF Drop, TypeInv, AppOK, Apps
  <2> QED BY <2>3, Advance DEF TypeInv
<1>18. ASSUME NEW t \in Tables, NEW gone \in BOOLEAN, Remove(t, gone)
      PROVE  AppOK'
  <2>2. ~app.opened
      BY <1>18, Stepping DEF Remove, TypeInv, Writes, Schemas, List
  <2>3. app.plan # <<>> /\ app' \in Apps /\ app'.plan = Tail(app.plan) /\ ~app'.opened
      BY <1>18, <2>2, Stepping DEF Remove, TypeInv, AppOK, Apps
  <2> QED BY <2>3, Advance DEF TypeInv
<1>19. ASSUME NEW o \in Others, BeginRestore(o)
      PROVE  AppOK'
    BY <1>19 DEF BeginRestore, TypeInv, AppOK, Phase
<1>20. ASSUME NEW f \in Files, OpenRestored(f)
      PROVE  AppOK'
    BY <1>20 DEF OpenRestored, TypeInv, AppOK, Phase
<1>21. ASSUME FillRestored PROVE AppOK'
    BY <1>21 DEF FillRestored, TypeInv, AppOK, Phase
<1>22. ASSUME EndRestore PROVE AppOK'
    BY <1>22 DEF EndRestore, TypeInv, AppOK, Phase
<1>23. ASSUME RestoreFails PROVE AppOK'
    BY <1>23 DEF RestoreFails, TypeInv, AppOK, Phase
<1>24. ASSUME TimerFires PROVE AppOK'
    BY <1>24 DEF TimerFires, TypeInv, AppOK, Phase
<1>25. ASSUME StartEngine PROVE AppOK'
    BY <1>25 DEF StartEngine, TypeInv, AppOK, Phase
<1>26. ASSUME StopEngine PROVE AppOK'
    BY <1>26 DEF StopEngine, TypeInv, AppOK, Phase
<1>27. ASSUME Compile PROVE AppOK'
    BY <1>27 DEF Compile, TypeInv, AppOK, Phase
<1> QED
    BY <1>1, <1>2, <1>3, <1>4, <1>5, <1>6, <1>7, <1>8, <1>9, <1>10, <1>11,
       <1>12, <1>13, <1>14, <1>15, <1>16, <1>17, <1>18, <1>19, <1>20,
       <1>21, <1>22, <1>23, <1>24, <1>25, <1>26, <1>27
    DEF Next, UserStep, AppStep, SyncStep, EngineStep
\* ... of the restore, ...
LEMMA SyncNext ==
    ASSUME TypeInv, Next
    PROVE  sync' \in Syncs
<1>1. ASSUME NEW k \in {"user", "imported"}, NEW saved \in BOOLEAN, Toggle(k, saved)
      PROVE  sync' \in Syncs
    BY <1>1 DEF Toggle, Start, TypeInv
<1>2. ASSUME NEW c \in Contents, EditWords(c)
      PROVE  sync' \in Syncs
    BY <1>2 DEF EditWords, Start, TypeInv
<1>3. ASSUME OpenDialog PROVE sync' \in Syncs
    BY <1>3 DEF OpenDialog, TypeInv
<1>4. ASSUME Cancel PROVE sync' \in Syncs
    BY <1>4 DEF Cancel, TypeInv
<1>5. ASSUME Done PROVE sync' \in Syncs
    BY <1>5 DEF Done, Start, TypeInv
<1>6. ASSUME ResetDefaultSettings PROVE sync' \in Syncs
    BY <1>6 DEF ResetDefaultSettings, TypeInv
<1>7. ASSUME NEW t \in Tables, NEW state \in {"off", "on", "removed"}, ChangeRow(t, state)
      PROVE  sync' \in Syncs
    BY <1>7 DEF ChangeRow, TypeInv
<1>8. ASSUME NEW t \in Tables, NEW c \in Contents, ImportManagedDictionary(t, c)
      PROVE  sync' \in Syncs
    BY <1>8 DEF ImportManagedDictionary, Start, TypeInv
<1>9. ASSUME Open PROVE sync' \in Syncs
    BY <1>9 DEF Open, TypeInv
<1>10. ASSUME Fill PROVE sync' \in Syncs
    BY <1>10 DEF Fill, TypeInv
<1>11. ASSUME Read PROVE sync' \in Syncs
    BY <1>11 DEF Read, TypeInv
<1>12. ASSUME Select PROVE sync' \in Syncs
    BY <1>12 DEF Select, TypeInv
<1>13. ASSUME End PROVE sync' \in Syncs
    BY <1>13 DEF End, TypeInv
<1>14. ASSUME CloseApp PROVE sync' \in Syncs
    BY <1>14 DEF CloseApp, TypeInv
<1>15. ASSUME PostApply PROVE sync' \in Syncs
    BY <1>15 DEF PostApply, TypeInv
<1>16. ASSUME NEW noticed \in BOOLEAN, WriteFails(noticed)
      PROVE  sync' \in Syncs
    BY <1>16 DEF WriteFails, TypeInv
<1>17. ASSUME NEW kept \in SUBSET Schemas, Drop(kept)
      PROVE  sync' \in Syncs
    BY <1>17 DEF Drop, TypeInv
<1>18. ASSUME NEW t \in Tables, NEW gone \in BOOLEAN, Remove(t, gone)
      PROVE  sync' \in Syncs
    BY <1>18 DEF Remove, TypeInv
<1>19. ASSUME NEW o \in Others, BeginRestore(o)
      PROVE  sync' \in Syncs
  <2>1. Holds(o) \subseteq Files
      BY DEF Holds
  <2>2. ({List, UserWords} \cup Schemas \subseteq Holds(o)) \in BOOLEAN
      OBVIOUS
  <2> QED BY <1>19, <2>1, <2>2 DEF BeginRestore, Syncs
<1>20. ASSUME NEW f \in Files, OpenRestored(f)
      PROVE  sync' \in Syncs
    BY <1>20 DEF OpenRestored, TypeInv, Syncs
<1>21. ASSUME FillRestored PROVE sync' \in Syncs
    BY <1>21 DEF FillRestored, TypeInv, Syncs
<1>22. ASSUME EndRestore PROVE sync' \in Syncs
    BY <1>22 DEF EndRestore, TypeInv, Syncs
<1>23. ASSUME RestoreFails PROVE sync' \in Syncs
    BY <1>23 DEF RestoreFails, TypeInv, Syncs
<1>24. ASSUME TimerFires PROVE sync' \in Syncs
    BY <1>24 DEF TimerFires, TypeInv
<1>25. ASSUME StartEngine PROVE sync' \in Syncs
    BY <1>25 DEF StartEngine, TypeInv
<1>26. ASSUME StopEngine PROVE sync' \in Syncs
    BY <1>26 DEF StopEngine, TypeInv
<1>27. ASSUME Compile PROVE sync' \in Syncs
    BY <1>27 DEF Compile, TypeInv
<1> QED
    BY <1>1, <1>2, <1>3, <1>4, <1>5, <1>6, <1>7, <1>8, <1>9, <1>10, <1>11,
       <1>12, <1>13, <1>14, <1>15, <1>16, <1>17, <1>18, <1>19, <1>20,
       <1>21, <1>22, <1>23, <1>24, <1>25, <1>26, <1>27
    DEF Next, UserStep, AppStep, SyncStep, EngineStep

\* ... of the engine, ...
LEMMA EngineNext ==
    ASSUME TypeInv, Next
    PROVE  engine' \in Engines
<1>1. ASSUME NEW k \in {"user", "imported"}, NEW saved \in BOOLEAN, Toggle(k, saved)
      PROVE  engine' \in Engines
    BY <1>1 DEF Toggle, Start, TypeInv
<1>2. ASSUME NEW c \in Contents, EditWords(c)
      PROVE  engine' \in Engines
    BY <1>2 DEF EditWords, Start, TypeInv
<1>3. ASSUME OpenDialog PROVE engine' \in Engines
    BY <1>3 DEF OpenDialog, TypeInv
<1>4. ASSUME Cancel PROVE engine' \in Engines
    BY <1>4 DEF Cancel, TypeInv
<1>5. ASSUME Done PROVE engine' \in Engines
    BY <1>5 DEF Done, Start, TypeInv
<1>6. ASSUME ResetDefaultSettings PROVE engine' \in Engines
    BY <1>6 DEF ResetDefaultSettings, TypeInv
<1>7. ASSUME NEW t \in Tables, NEW state \in {"off", "on", "removed"}, ChangeRow(t, state)
      PROVE  engine' \in Engines
    BY <1>7 DEF ChangeRow, TypeInv
<1>8. ASSUME NEW t \in Tables, NEW c \in Contents, ImportManagedDictionary(t, c)
      PROVE  engine' \in Engines
    BY <1>8 DEF ImportManagedDictionary, Start, TypeInv
<1>9. ASSUME Open PROVE engine' \in Engines
    BY <1>9 DEF Open, TypeInv
<1>10. ASSUME Fill PROVE engine' \in Engines
    BY <1>10 DEF Fill, TypeInv
<1>11. ASSUME Read PROVE engine' \in Engines
    BY <1>11 DEF Read, TypeInv
<1>12. ASSUME Select PROVE engine' \in Engines
    BY <1>12 DEF Select, TypeInv
<1>13. ASSUME End PROVE engine' \in Engines
    BY <1>13 DEF End, TypeInv
<1>14. ASSUME CloseApp PROVE engine' \in Engines
    BY <1>14 DEF CloseApp, TypeInv
<1>15. ASSUME PostApply PROVE engine' \in Engines
    BY <1>15, ChosenTyped DEF PostApply, TypeInv, RestOK, Engines, Deploy
<1>16. ASSUME NEW noticed \in BOOLEAN, WriteFails(noticed)
      PROVE  engine' \in Engines
    BY <1>16 DEF WriteFails, TypeInv
<1>17. ASSUME NEW kept \in SUBSET Schemas, Drop(kept)
      PROVE  engine' \in Engines
    BY <1>17 DEF Drop, TypeInv
<1>18. ASSUME NEW t \in Tables, NEW gone \in BOOLEAN, Remove(t, gone)
      PROVE  engine' \in Engines
    BY <1>18 DEF Remove, TypeInv
<1>19. ASSUME NEW o \in Others, BeginRestore(o)
      PROVE  engine' \in Engines
    BY <1>19 DEF BeginRestore, TypeInv
<1>20. ASSUME NEW f \in Files, OpenRestored(f)
      PROVE  engine' \in Engines
    BY <1>20 DEF OpenRestored, TypeInv
<1>21. ASSUME FillRestored PROVE engine' \in Engines
    BY <1>21 DEF FillRestored, TypeInv
<1>22. ASSUME EndRestore PROVE engine' \in Engines
    BY <1>22, ChosenTyped DEF EndRestore, TypeInv, RestOK, Engines, Deploy
<1>23. ASSUME RestoreFails PROVE engine' \in Engines
    BY <1>23 DEF RestoreFails, TypeInv
<1>24. ASSUME TimerFires PROVE engine' \in Engines
    BY <1>24, ChosenTyped DEF TimerFires, TypeInv, RestOK, Engines, Deploy
<1>25. ASSUME StartEngine PROVE engine' \in Engines
    BY <1>25, ChosenTyped DEF StartEngine, TypeInv, RestOK, Engines, Deploy
<1>26. ASSUME StopEngine PROVE engine' \in Engines
    BY <1>26, ChosenTyped DEF StopEngine, TypeInv, RestOK, Engines, Deploy
<1>27. ASSUME Compile PROVE engine' \in Engines
  <2>1. Compiled(engine.of.use) \in {NoFile} \cup Built
      BY CompiledTyped DEF TypeInv, Engines
  <2> QED BY <1>27, <2>1 DEF Compile, TypeInv, Engines
<1> QED
    BY <1>1, <1>2, <1>3, <1>4, <1>5, <1>6, <1>7, <1>8, <1>9, <1>10, <1>11,
       <1>12, <1>13, <1>14, <1>15, <1>16, <1>17, <1>18, <1>19, <1>20,
       <1>21, <1>22, <1>23, <1>24, <1>25, <1>26, <1>27
    DEF Next, UserStep, AppStep, SyncStep, EngineStep

\* ... and of everything else.
LEMMA RestNext ==
    ASSUME TypeInv, Restoring, Next
    PROVE  RestOK'
<1>1. ASSUME NEW k \in {"user", "imported"}, NEW saved \in BOOLEAN, Toggle(k, saved)
      PROVE  RestOK'
    BY <1>1 DEF Toggle, Start, TypeInv, RestOK, Syncs, Switches
<1>2. ASSUME NEW c \in Contents, EditWords(c)
      PROVE  RestOK'
    BY <1>2 DEF EditWords, Start, TypeInv, RestOK, Syncs
<1>3. ASSUME OpenDialog PROVE RestOK'
    BY <1>3 DEF OpenDialog, TypeInv, RestOK, history
<1>4. ASSUME Cancel PROVE RestOK'
    BY <1>4 DEF Cancel, TypeInv, RestOK, history
<1>5. ASSUME Done PROVE RestOK'
    BY <1>5, RowsTyped DEF Done, Start, TypeInv, RestOK, Syncs
<1>6. ASSUME ResetDefaultSettings PROVE RestOK'
    BY <1>6 DEF ResetDefaultSettings, TypeInv, RestOK, Switches
<1>7. ASSUME NEW t \in Tables, NEW state \in {"off", "on", "removed"}, ChangeRow(t, state)
      PROVE  RestOK'
    BY <1>7 DEF ChangeRow, TypeInv, RestOK, history
<1>8. ASSUME NEW t \in Tables, NEW c \in Contents, ImportManagedDictionary(t, c)
      PROVE  RestOK'
    BY <1>8 DEF ImportManagedDictionary, Start, TypeInv, RestOK, Syncs
<1>9. ASSUME Open PROVE RestOK'
    BY <1>9 DEF Open, TypeInv, RestOK, history
<1>10. ASSUME Fill PROVE RestOK'
    BY <1>10 DEF Fill, TypeInv, RestOK, history
<1>11. ASSUME Read PROVE RestOK'
    BY <1>11 DEF Read, TypeInv, RestOK, history
<1>12. ASSUME Select PROVE RestOK'
    BY <1>12 DEF Select, TypeInv, RestOK, history
<1>13. ASSUME End PROVE RestOK'
  <2>1. wish' \in Entries
      BY <1>13 DEF End, TypeInv, RestOK, Entries
  <2> QED BY <1>13, <2>1 DEF End, TypeInv, RestOK, AppOK, Apps
<1>14. ASSUME CloseApp PROVE RestOK'
    BY <1>14 DEF CloseApp, TypeInv, RestOK, history
<1>15. ASSUME PostApply PROVE RestOK'
    BY <1>15 DEF PostApply, TypeInv, RestOK, Engines
<1>16. ASSUME NEW noticed \in BOOLEAN, WriteFails(noticed)
      PROVE  RestOK'
    BY <1>16 DEF WriteFails, TypeInv, RestOK, history
<1>17. ASSUME NEW kept \in SUBSET Schemas, Drop(kept)
      PROVE  RestOK'
    BY <1>17 DEF Drop, TypeInv, RestOK
<1>18. ASSUME NEW t \in Tables, NEW gone \in BOOLEAN, Remove(t, gone)
      PROVE  RestOK'
    BY <1>18 DEF Remove, TypeInv, RestOK, history
<1>19. ASSUME NEW o \in Others, BeginRestore(o)
      PROVE  RestOK'
    BY <1>19, LexiconAssumption DEF BeginRestore, TypeInv, RestOK
<1>20. ASSUME NEW f \in Files, OpenRestored(f)
      PROVE  RestOK'
    BY <1>20 DEF OpenRestored, TypeInv, RestOK, history
<1>21. ASSUME FillRestored PROVE RestOK'
    BY <1>21 DEF FillRestored, TypeInv, RestOK, history
<1>22. ASSUME EndRestore PROVE RestOK'
  <2>1. wish' \in Entries
    <3>1. sync.other.disk[List] \in States(List)
        BY <1>22, LexiconAssumption, FileKinds DEF EndRestore, Restoring
    <3> QED BY <1>22, <3>1, FileKinds DEF EndRestore, TypeInv, RestOK
  <2> QED BY <1>22, <2>1 DEF EndRestore, TypeInv, RestOK, Engines
<1>23. ASSUME RestoreFails PROVE RestOK'
    BY <1>23 DEF RestoreFails, TypeInv, RestOK, history
<1>24. ASSUME TimerFires PROVE RestOK'
    BY <1>24 DEF TimerFires, TypeInv, RestOK, Engines
<1>25. ASSUME StartEngine PROVE RestOK'
    BY <1>25 DEF StartEngine, TypeInv, RestOK, history
<1>26. ASSUME StopEngine PROVE RestOK'
    BY <1>26 DEF StopEngine, TypeInv, RestOK, Engines
<1>27. ASSUME Compile PROVE RestOK'
    BY <1>27 DEF Compile, TypeInv, RestOK, history
<1> QED
    BY <1>1, <1>2, <1>3, <1>4, <1>5, <1>6, <1>7, <1>8, <1>9, <1>10, <1>11,
       <1>12, <1>13, <1>14, <1>15, <1>16, <1>17, <1>18, <1>19, <1>20,
       <1>21, <1>22, <1>23, <1>24, <1>25, <1>26, <1>27
    DEF Next, UserStep, AppStep, SyncStep, EngineStep

\* All types together.
LEMMA TypeNext ==
    ASSUME TypeInv, Restoring, [Next]_vars
    PROVE  TypeInv'
<1>1. CASE Next
  <2>1. DiskOK'
      BY <1>1, DiskNext
  <2>2. AppOK'
      BY <1>1, AppNext
  <2>3. sync' \in Syncs
      BY <1>1, SyncNext
  <2>4. engine' \in Engines
      BY <1>1, EngineNext
  <2>5. RestOK'
      BY <1>1, RestNext
  <2> QED BY <2>1, <2>2, <2>3, <2>4, <2>5 DEF TypeInv
<1>2. CASE UNCHANGED vars
    BY <1>2 DEF vars, history, TypeInv, DiskOK, AppOK, RestOK, Phase
<1> QED BY <1>1, <1>2

\* The type invariant that the runs check follows from them.
LEMMA TypeImplied == TypeInv => TypeOK
<1> SUFFICES ASSUME TypeInv PROVE TypeOK
    OBVIOUS
<1>1. app.opened => app.plan # <<>> /\ Head(app.plan) \in Writes
    BY Stepping DEF TypeInv, Step
<1>2. engine.built = NoFile \/ \E s \in SUBSET Tables : engine.built \in [s -> Contents]
  <2>1. engine.built \in {NoFile} \cup Built
      BY DEF TypeInv, Engines
  <2> QED BY <2>1 DEF Built
<1>3. /\ engine.hears \in BOOLEAN /\ engine.timer \in BOOLEAN /\ engine.busy \in BOOLEAN
      /\ engine.of \in [switches : Switches, use : BOOLEAN]
    BY DEF TypeInv, Engines
<1> QED BY <1>1, <1>2, <1>3 DEF TypeInv, DiskOK, AppOK, Apps, Syncs, RestOK, TypeOK
-----------------------------------------------------------------------------
(* What each step of an operation does, by its phase.                      *)
LEMMA Closed ==
    ASSUME TypeInv, Phase \notin Writes
    PROVE  ~app.opened
BY DEF TypeInv, AppOK

\* An operation begins.
LEMMA StartMoves ==
    ASSUME TypeInv, NEW a \in Apps, NEW plan \in Plans, Start(plan, a), PhaseOf(plan) # "rest"
    PROVE  /\ Phase = "rest" /\ ~app.opened
           /\ Phase' = PhaseOf(plan) /\ ~app'.opened /\ app'.ok
           /\ app'.dialog = a.dialog /\ app'.rows = a.rows /\ app'.name = a.name
           /\ app'.content = a.content /\ app'.entries = a.entries
           /\ disk' = disk /\ sync' = sync /\ engine' = engine /\ owed' = owed
           /\ off' = off /\ lost' = lost /\ upset' = (upset \/ sync.on)
<1>1. Phase = "rest"
    BY Stepping DEF Start, TypeInv
<1>2. ~app.opened
    BY <1>1, Closed DEF Writes, Schemas, List
<1>3. app' = [a EXCEPT !.plan = plan, !.ok = TRUE, !.opened = FALSE]
      /\ Phase' = PhaseOf(plan) /\ ~app'.opened /\ app'.ok
    BY StartTyped DEF TypeInv
<1>4. /\ app'.dialog = a.dialog /\ app'.rows = a.rows /\ app'.name = a.name
      /\ app'.content = a.content /\ app'.entries = a.entries
    BY <1>3 DEF Apps
<1> QED BY <1>1, <1>2, <1>3, <1>4 DEF Start

\* A switch, the user's words, an import and a confirmed dialog.
LEMMA ToggleMoves ==
    ASSUME TypeInv, NEW k \in {"user", "imported"}, NEW saved \in BOOLEAN, Toggle(k, saved)
    PROVE  /\ Phase = "rest" /\ ~app.opened /\ Phase' = "read" /\ ~app'.opened /\ app'.ok
           /\ disk' = disk /\ sync' = sync /\ engine' = engine /\ owed' = owed
           /\ off' = off /\ lost' = lost /\ upset' = (upset \/ sync.on)
           /\ ~app.dialog /\ app'.dialog = app.dialog /\ app'.rows = app.rows /\ wish' = wish
<1> DEFINE a == app
           plan == Integration
<1>1. Start(plan, a)
    BY DEF Toggle
<1>2. a \in Apps
    BY DEF TypeInv, AppOK
<1>3. plan \in Plans /\ PhaseOf(plan) = "read"
    BY NewPlans
<1>4. PhaseOf(plan) # "rest"
    BY <1>3 DEF List
<1>5. /\ Phase = "rest" /\ ~app.opened /\ Phase' = "read" /\ ~app'.opened /\ app'.ok
      /\ app'.dialog = a.dialog /\ app'.rows = a.rows /\ app'.name = a.name
      /\ app'.content = a.content /\ app'.entries = a.entries
      /\ disk' = disk /\ sync' = sync /\ engine' = engine /\ owed' = owed
      /\ off' = off /\ lost' = lost /\ upset' = (upset \/ sync.on)
  <2> HIDE DEF a, plan
  <2> QED BY <1>1, <1>2, <1>3, <1>4, StartMoves
<1> QED BY <1>5 DEF Toggle, TypeInv, AppOK, Apps

LEMMA EditMoves ==
    ASSUME TypeInv, NEW c \in Contents, EditWords(c)
    PROVE  /\ Phase = "rest" /\ ~app.opened /\ Phase' = "words" /\ ~app'.opened /\ app'.ok
           /\ disk' = disk /\ sync' = sync /\ engine' = engine /\ owed' = owed
           /\ off' = off /\ lost' = lost /\ upset' = (upset \/ sync.on)
           /\ ~app.dialog /\ app'.dialog = app.dialog /\ app'.rows = app.rows
           /\ switches' = switches /\ wish' = wish
<1> DEFINE a == [app EXCEPT !.content = c]
           plan == <<"words">> \o Integration
<1>1. Start(plan, a)
    BY DEF EditWords
<1>2. a \in Apps
    BY DEF TypeInv, AppOK, Apps
<1>3. plan \in Plans /\ PhaseOf(plan) = "words"
    BY NewPlans
<1>4. PhaseOf(plan) # "rest"
    BY <1>3 DEF List
<1>5. /\ Phase = "rest" /\ ~app.opened /\ Phase' = "words" /\ ~app'.opened /\ app'.ok
      /\ app'.dialog = a.dialog /\ app'.rows = a.rows /\ app'.name = a.name
      /\ app'.content = a.content /\ app'.entries = a.entries
      /\ disk' = disk /\ sync' = sync /\ engine' = engine /\ owed' = owed
      /\ off' = off /\ lost' = lost /\ upset' = (upset \/ sync.on)
  <2> HIDE DEF a, plan
  <2> QED BY <1>1, <1>2, <1>3, <1>4, StartMoves
<1> QED BY <1>5 DEF EditWords, TypeInv, AppOK, Apps

LEMMA ImportMoves ==
    ASSUME TypeInv, NEW t \in Tables, NEW c \in Contents, ImportManagedDictionary(t, c)
    PROVE  /\ Phase = "rest" /\ ~app.opened /\ Phase' = "import" /\ ~app'.opened /\ app'.ok
           /\ disk' = disk /\ sync' = sync /\ engine' = engine /\ owed' = owed
           /\ off' = off /\ lost' = lost /\ upset' = (upset \/ sync.on)
           /\ app.dialog /\ app'.dialog = app.dialog /\ app'.rows = app.rows
           /\ switches' = switches /\ wish' = wish
<1> DEFINE a == [app EXCEPT !.name = t, !.content = c]
           plan == <<"import">> \o Integration
<1>1. Start(plan, a)
    BY DEF ImportManagedDictionary
<1>2. a \in Apps
    BY DEF TypeInv, AppOK, Apps
<1>3. plan \in Plans /\ PhaseOf(plan) = "import"
    BY NewPlans
<1>4. PhaseOf(plan) # "rest"
    BY <1>3 DEF List
<1>5. /\ Phase = "rest" /\ ~app.opened /\ Phase' = "import" /\ ~app'.opened /\ app'.ok
      /\ app'.dialog = a.dialog /\ app'.rows = a.rows /\ app'.name = a.name
      /\ app'.content = a.content /\ app'.entries = a.entries
      /\ disk' = disk /\ sync' = sync /\ engine' = engine /\ owed' = owed
      /\ off' = off /\ lost' = lost /\ upset' = (upset \/ sync.on)
  <2> HIDE DEF a, plan
  <2> QED BY <1>1, <1>2, <1>3, <1>4, StartMoves
<1> QED BY <1>5 DEF ImportManagedDictionary, TypeInv, AppOK, Apps

LEMMA DoneMoves ==
    ASSUME TypeInv, Done
    PROVE  /\ Phase = "rest" /\ Phase' \in {"remove", List}
           /\ ~app.opened /\ ~app'.opened /\ app'.ok
           /\ disk' = disk /\ sync' = sync /\ engine' = engine /\ owed' = owed
           /\ off' = off /\ lost' = lost /\ upset' = (upset \/ sync.on)
           /\ app.dialog /\ ~app'.dialog /\ app'.rows = app.rows /\ app'.entries = RowEntries
           /\ switches' = switches /\ wish' = RowEntries
<1> DEFINE a == [app EXCEPT !.dialog = FALSE, !.entries = RowEntries]
           plan == [i \in 1..Cardinality(Removed) |-> "remove"] \o <<List, "select", "end">>
<1>1. Start(plan, a)
    BY DEF Done
<1>2. a \in Apps
    BY RowsTyped DEF TypeInv, AppOK, Apps
<1>3. plan \in Plans /\ PhaseOf(plan) \in {"remove", List}
      <2>1. plan = Removal(Cardinality(Removed))
      BY DEF Removal
  <2>2. Cardinality(Removed) \in Nat
      BY FS_Subset, FS_CardinalityType, LexiconAssumption DEF Removed
  <2> HIDE DEF plan
  <2> QED BY <2>1, <2>2, NewPlans
<1>4. PhaseOf(plan) # "rest"
    BY <1>3 DEF List
<1>5. /\ Phase = "rest" /\ ~app.opened /\ Phase' \in {"remove", List} /\ ~app'.opened /\ app'.ok
      /\ app'.dialog = a.dialog /\ app'.rows = a.rows /\ app'.name = a.name
      /\ app'.content = a.content /\ app'.entries = a.entries
      /\ disk' = disk /\ sync' = sync /\ engine' = engine /\ owed' = owed
      /\ off' = off /\ lost' = lost /\ upset' = (upset \/ sync.on)
  <2> HIDE DEF a, plan
  <2> QED BY <1>1, <1>2, <1>3, <1>4, StartMoves
<1> QED BY <1>5 DEF Done, TypeInv, AppOK, Apps

\* The dialog changes nothing but its rows.
LEMMA DialogMoves ==
    ASSUME TypeInv,
           \/ OpenDialog \/ Cancel
           \/ \E t \in Tables, state \in {"off", "on", "removed"} : ChangeRow(t, state)
    PROVE  /\ Phase = "rest" /\ Phase' = "rest" /\ ~app.opened /\ ~app'.opened
           /\ UNCHANGED <<disk, switches, owed, sync, engine, history>>
<1>1. app.plan = <<>> /\ app'.plan = app.plan /\ app'.opened = app.opened
    BY DEF OpenDialog, Cancel, ChangeRow, TypeInv, AppOK, Apps
<1>2. Phase = "rest" /\ Phase' = Phase
    BY <1>1, Stepping DEF Phase, TypeInv
<1>3. ~app.opened
    BY <1>2, Closed DEF Writes, Schemas, List
<1> QED BY <1>1, <1>2, <1>3 DEF OpenDialog, Cancel, ChangeRow

\* A file is opened, ...
LEMMA OpenMoves ==
    ASSUME TypeInv, Open
    PROVE  /\ Phase \in Writes /\ Phase' = Phase /\ ~app.opened /\ app'.opened
           /\ FileOf(Phase) \in Files
           /\ disk' = [disk EXCEPT ![FileOf(Phase)] = Truncated(FileOf(Phase))]
           /\ app' = [app EXCEPT !.opened = TRUE,
                                 !.flags = IF Phase = List THEN switches ELSE @]
           /\ off' = IF Phase = List THEN {} ELSE off
           /\ UNCHANGED <<switches, owed, sync, engine, wish, lost, upset>>
<1>1. Step = Phase
    BY Stepping DEF Open, TypeInv
<1>2. app'.plan = app.plan /\ app'.opened
    BY DEF Open, TypeInv, AppOK, Apps
<1>3. Phase' = Phase
    BY <1>2 DEF Phase
<1>4. FileOf(Phase) \in Files
    BY <1>1, Targets, FileKinds DEF Open, Writes, TypeInv, AppOK, Apps
<1> QED BY <1>1, <1>2, <1>3, <1>4 DEF Open

\* ... filled, ...
LEMMA FillMoves ==
    ASSUME TypeInv, Fill
    PROVE  /\ Phase \in Writes /\ app.opened /\ ~app'.opened
           /\ Phase \in {"import", "words"} => Phase' = "read"
           /\ Phase = List => Phase' = "select"
           /\ Phase = "wanxiang" => Phase' = "wanxiang_pro"
           /\ Phase = "wanxiang_pro" => Phase' = "end"
           /\ FileOf(Phase) \in Files
           /\ disk' = [disk EXCEPT ![FileOf(Phase)] = ValueOf(Phase)]
           /\ app' = [app EXCEPT !.opened = FALSE, !.plan = Tail(app.plan)]
           /\ UNCHANGED <<switches, owed, sync, engine, history>>
<1>1. Step = Phase /\ app.plan # <<>> /\ Phase \in Writes
    BY Stepping DEF Fill, TypeInv
<1>2. app' \in Apps /\ app'.plan = Tail(app.plan) /\ ~app'.opened
    BY <1>1, Stepping DEF Fill, TypeInv, AppOK, Apps
<1>3. Phase' = PhaseOf(Tail(app.plan))
    BY <1>1, <1>2, Advance DEF TypeInv
<1>4. FileOf(Phase) \in Files
    BY <1>1, Written DEF Fill
<1>5. Phase = PhaseOf(app.plan) /\ app.plan \in Plans
    BY DEF Phase, TypeInv, AppOK
<1>6. /\ Phase \in {"import", "words"} => Phase' = "read"
      /\ Phase = List => Phase' = "select"
      /\ Phase = "wanxiang" => Phase' = "wanxiang_pro"
      /\ Phase = "wanxiang_pro" => Phase' = "end"
    BY <1>3, <1>5, PlanSteps, NewPlans
<1> QED BY <1>1, <1>2, <1>4, <1>6 DEF Fill

\* ... or neither.
LEMMA FailMoves ==
    ASSUME TypeInv, NEW noticed \in BOOLEAN, WriteFails(noticed)
    PROVE  /\ Phase \in Writes /\ ~app'.opened
           /\ app'.dialog = app.dialog /\ app'.rows = app.rows /\ app'.name = app.name
           /\ app'.tables = app.tables /\ app'.entries = app.entries /\ app'.flags = app.flags
           /\ noticed /\ Phase # "words" => Phase' = "end" /\ ~app'.ok
           /\ ~(noticed /\ Phase # "words") =>
                 /\ app'.ok = app.ok
                 /\ Phase \in {"import", "words"} => Phase' = "read"
                 /\ Phase = List => Phase' = "select"
                 /\ Phase = "wanxiang" => Phase' = "wanxiang_pro"
                 /\ Phase = "wanxiang_pro" => Phase' = "end"
           /\ IF ~app.opened /\ Phase \in {"import", "words"} THEN UNCHANGED <<off, upset>>
              ELSE off' # {} /\ upset'
           /\ off \subseteq off'
           /\ ~app.opened => noticed
           /\ UNCHANGED <<disk, switches, owed, sync, engine, wish, lost>>
<1>1. Step = Phase /\ app.plan # <<>> /\ Phase \in Writes
    BY Stepping DEF WriteFails, TypeInv
<1>2. Phase = PhaseOf(app.plan) /\ app.plan \in Plans
    BY DEF Phase, TypeInv, AppOK
<1>3. CASE noticed /\ Phase # "words"
  <2>1. app' = [app EXCEPT !.opened = FALSE, !.ok = FALSE, !.plan = <<"end">>]
      BY <1>1, <1>3 DEF WriteFails
  <2>2. app'.plan = <<"end">> /\ ~app'.opened /\ ~app'.ok
      BY <2>1 DEF TypeInv, AppOK, Apps
  <2>3. Phase' = "end"
      BY <2>2, NewPlans DEF Phase
  <2> QED BY <1>1, <1>3, <2>1, <2>2, <2>3 DEF WriteFails, TypeInv, AppOK, Apps
<1>4. CASE ~(noticed /\ Phase # "words")
  <2>1. app' = [app EXCEPT !.opened = FALSE, !.plan = Tail(app.plan)]
      BY <1>1, <1>4 DEF WriteFails
  <2>2. app' \in Apps /\ app'.plan = Tail(app.plan) /\ ~app'.opened
      BY <1>1, <2>1, Stepping DEF TypeInv, AppOK, Apps
  <2>3. Phase' = PhaseOf(Tail(app.plan))
      BY <1>1, <2>2, Advance DEF TypeInv
  <2>4. /\ Phase \in {"import", "words"} => Phase' = "read"
        /\ Phase = List => Phase' = "select"
        /\ Phase = "wanxiang" => Phase' = "wanxiang_pro"
        /\ Phase = "wanxiang_pro" => Phase' = "end"
      BY <2>3, <1>2, PlanSteps, NewPlans
  <2> QED BY <1>1, <1>4, <2>1, <2>2, <2>4 DEF WriteFails, TypeInv, AppOK, Apps
<1> QED BY <1>3, <1>4

\* The steps that write nothing, or more than one file.
LEMMA ReadMoves ==
    ASSUME TypeInv, Read
    PROVE  /\ Phase = "read" /\ Phase' = List /\ ~app.opened /\ ~app'.opened
           /\ app'.dialog = app.dialog /\ app'.rows = app.rows /\ app'.name = app.name
           /\ app'.ok = app.ok
           /\ app'.entries = IF app.dialog THEN [ListOf(disk) EXCEPT ![app.name] = "on"]
                             ELSE ListOf(disk)
           /\ UNCHANGED <<disk, switches, owed, sync, engine, history>>
<1>1. Step = Phase /\ app.plan # <<>> /\ Phase = "read"
    BY Stepping DEF Read, TypeInv
<1>2. ~app.opened
    BY <1>1, Closed DEF Writes, Schemas, List
<1>3. app'.plan = Tail(app.plan) /\ ~app'.opened
    BY <1>2 DEF Read, TypeInv, AppOK, Apps
<1>4. Phase' = PhaseOf(Tail(app.plan))
    BY <1>3 DEF Phase
<1>5. Phase' = List
    BY <1>1, <1>4, PlanSteps DEF Phase, TypeInv, AppOK
<1> QED BY <1>1, <1>2, <1>3, <1>5 DEF Read, TypeInv, AppOK, Apps, ReadManagedDictionaryManifest

LEMMA SelectMoves ==
    ASSUME TypeInv, Select
    PROVE  /\ Phase = "select" /\ ~app.opened /\ ~app'.opened
           /\ app'.tables = EnabledTables(app.flags, app.entries, HasWords(disk))
           /\ Phase' = IF app'.tables = {} THEN "drop" ELSE "wanxiang"
           /\ app'.dialog = app.dialog /\ app'.rows = app.rows /\ app'.name = app.name
           /\ app'.ok = app.ok /\ app'.entries = app.entries /\ app'.flags = app.flags
           /\ UNCHANGED <<disk, switches, owed, sync, engine, history>>
<1>1. Step = Phase /\ app.plan # <<>> /\ Phase = "select"
    BY Stepping DEF Select, TypeInv
<1>2. ~app.opened
    BY <1>1, Closed DEF Writes, Schemas, List
<1> DEFINE tables == EnabledTables(app.flags, app.entries, HasWords(disk))
<1>3. app' = [app EXCEPT !.tables = tables,
                         !.plan = IF tables = {} THEN <<"drop", "end">>
                                  ELSE <<"wanxiang", "wanxiang_pro", "end">>]
    BY DEF Select, UserLexiconHasEntries
<1> HIDE DEF tables
<1>4. /\ app'.tables = tables /\ ~app'.opened
      /\ app'.plan = IF tables = {} THEN <<"drop", "end">>
                     ELSE <<"wanxiang", "wanxiang_pro", "end">>
    BY <1>2, <1>3 DEF TypeInv, AppOK, Apps
<1>5. Phase' = IF tables = {} THEN "drop" ELSE "wanxiang"
    BY <1>4, NewPlans DEF Phase
<1> QED BY <1>1, <1>2, <1>3, <1>4, <1>5 DEF Select, TypeInv, AppOK, Apps, tables

LEMMA DropMoves ==
    ASSUME TypeInv, NEW kept \in SUBSET Schemas, Drop(kept)
    PROVE  /\ Phase = "drop" /\ Phase' = "end" /\ ~app.opened /\ ~app'.opened
           /\ app' = [app EXCEPT !.plan = Tail(app.plan)]
           /\ disk' = [f \in Files |-> IF f \in Schemas \ kept THEN NoFile ELSE disk[f]]
           /\ IF kept = {} THEN UNCHANGED <<off, upset>> ELSE off' # {} /\ upset'
           /\ UNCHANGED <<switches, owed, sync, engine, wish, lost>>
<1>1. Step = Phase /\ app.plan # <<>> /\ Phase = "drop"
    BY Stepping DEF Drop, TypeInv
<1>2. ~app.opened
    BY <1>1, Closed DEF Writes, Schemas, List
<1>3. app'.plan = Tail(app.plan) /\ ~app'.opened
    BY <1>2 DEF Drop, TypeInv, AppOK, Apps
<1>4. Phase' = PhaseOf(Tail(app.plan))
    BY <1>3 DEF Phase
<1>5. Phase' = "end"
    BY <1>1, <1>4, PlanSteps DEF Phase, TypeInv, AppOK
<1> QED BY <1>1, <1>2, <1>3, <1>5 DEF Drop

LEMMA RemoveMoves ==
    ASSUME TypeInv, NEW t \in Tables, NEW gone \in BOOLEAN, Remove(t, gone)
    PROVE  /\ Phase = "remove" /\ Phase' \in {"remove", List} /\ ~app.opened /\ ~app'.opened
           /\ app' = [app EXCEPT !.plan = Tail(app.plan), !.rows[t] = "none"]
           /\ t \in Removed /\ app.rows[t] = "removed"
           /\ disk' = IF gone THEN [disk EXCEPT ![t] = NoFile] ELSE disk
           /\ UNCHANGED <<switches, owed, sync, engine, history>>
<1>1. Step = Phase /\ app.plan # <<>> /\ Phase = "remove"
    BY Stepping DEF Remove, TypeInv
<1>2. ~app.opened
    BY <1>1, Closed DEF Writes, Schemas, List
<1>3. app'.plan = Tail(app.plan) /\ ~app'.opened
    BY <1>2 DEF Remove, TypeInv, AppOK, Apps
<1>4. Phase' = PhaseOf(Tail(app.plan))
    BY <1>3 DEF Phase
<1>5. Phase' \in {"remove", List}
    BY <1>1, <1>4, PlanSteps DEF Phase, TypeInv, AppOK
<1> QED BY <1>1, <1>2, <1>3, <1>5 DEF Remove, Removed

\* An operation ends, or the application with it.
LEMMA EndMoves ==
    ASSUME TypeInv, End
    PROVE  /\ Phase = "end" /\ Phase' = "rest" /\ ~app.opened /\ ~app'.opened
           /\ app'.dialog = app.dialog /\ app'.ok = app.ok /\ app'.name = app.name
           /\ app'.rows = IF ~app.dialog THEN NoEntries
                          ELSE IF app.ok THEN ListOf(disk) ELSE app.rows
           /\ owed' = (owed \/ app.ok \/ ~app.dialog)
           /\ wish' = IF app.dialog /\ app.ok THEN [wish EXCEPT ![app.name] = "on"] ELSE wish
           /\ UNCHANGED <<disk, switches, sync, engine, off, lost, upset>>
<1>1. Step = Phase /\ app.plan # <<>> /\ Phase = "end"
    BY Stepping DEF End, TypeInv
<1>2. ~app.opened
    BY <1>1, Closed DEF Writes, Schemas, List
<1>3. app'.plan = <<>> /\ ~app'.opened
    BY <1>2 DEF End, TypeInv, AppOK, Apps
<1>4. Phase' = "rest"
    BY <1>3, NewPlans DEF Phase
<1> QED BY <1>1, <1>2, <1>3, <1>4 DEF End, TypeInv, AppOK, Apps, ReadManagedDictionaryManifest

LEMMA CloseMoves ==
    ASSUME TypeInv, CloseApp
    PROVE  /\ Phase' = "rest" /\ ~app'.opened /\ app' = Idle /\ app'.rows = NoEntries
           /\ IF Phase = "rest" THEN UNCHANGED <<off, upset>> ELSE off' # {} /\ upset'
           /\ owed' = FALSE /\ lost' = TRUE
           /\ UNCHANGED <<disk, switches, sync, engine, wish>>
<1>1. app'.plan = <<>> /\ ~app'.opened /\ app' = Idle /\ app'.rows = NoEntries
    BY DEF CloseApp, Idle
<1>2. Phase' = "rest"
    BY <1>1, NewPlans DEF Phase
<1>3. app.plan = <<>> <=> Phase = "rest"
    BY Stepping DEF TypeInv
<1> QED BY <1>1, <1>2, <1>3 DEF CloseApp

\* Who leaves the application alone leaves its phase alone.
LEMMA AppKept ==
    ASSUME app' = app
    PROVE  Phase' = Phase
BY DEF Phase
-----------------------------------------------------------------------------
(* The order of an operation, and the state of a restore.                  *)
LEMMA OrderlyNext ==
    ASSUME TypeInv, Orderly, Next
    PROVE  Orderly'
<1>1. ASSUME NEW k \in {"user", "imported"}, NEW saved \in BOOLEAN, Toggle(k, saved)
      PROVE  Orderly'
    BY <1>1, ToggleMoves DEF Orderly, Schemas, List
<1>2. ASSUME NEW c \in Contents, EditWords(c)
      PROVE  Orderly'
    BY <1>2, EditMoves DEF Orderly, Schemas, List
<1>3. ASSUME OpenDialog PROVE Orderly'
  <2>1. Phase' = "rest" /\ Phase = "rest" /\ UNCHANGED <<sync, upset>>
      BY <1>3, DialogMoves DEF history
  <2> QED BY <2>1 DEF Orderly, Schemas, List
<1>4. ASSUME Cancel PROVE Orderly'
  <2>1. Phase' = "rest" /\ Phase = "rest" /\ UNCHANGED <<sync, upset>>
      BY <1>4, DialogMoves DEF history
  <2> QED BY <2>1 DEF Orderly, Schemas, List
<1>5. ASSUME Done PROVE Orderly'
  <2>1. \A t \in Tables : app.rows[t] = "removed" => RowEntries[t] = "none"
      BY DEF RowEntries
  <2>2. \A t \in Removed' : app'.entries[t] = "none"
      BY <1>5, <2>1, DoneMoves DEF Removed
  <2>3. Phase' \in {"remove", List} /\ app'.ok /\ ~app'.dialog /\ Phase = "rest"
        /\ sync' = sync /\ upset' = (upset \/ sync.on)
      BY <1>5, DoneMoves
  <2> QED BY <2>2, <2>3 DEF Orderly, Schemas, List
<1>6. ASSUME ResetDefaultSettings PROVE Orderly'
    BY <1>6, AppKept DEF ResetDefaultSettings, Orderly, history, Removed
<1>7. ASSUME NEW t \in Tables, NEW state \in {"off", "on", "removed"}, ChangeRow(t, state)
      PROVE  Orderly'
  <2>1. Phase' = "rest" /\ Phase = "rest" /\ UNCHANGED <<sync, upset>>
      BY <1>7, DialogMoves DEF history
  <2> QED BY <2>1 DEF Orderly, Schemas, List
<1>8. ASSUME NEW t \in Tables, NEW c \in Contents, ImportManagedDictionary(t, c)
      PROVE  Orderly'
    BY <1>8, ImportMoves DEF Orderly, Schemas, List
<1>9. ASSUME Open PROVE Orderly'
  <2>1. app'.ok = app.ok /\ app'.dialog = app.dialog /\ app'.tables = app.tables
        /\ app'.entries = app.entries /\ app'.rows = app.rows
      BY <1>9, OpenMoves DEF TypeInv, AppOK, Apps
  <2>2. Phase' = Phase /\ UNCHANGED <<sync, upset>>
      BY <1>9, OpenMoves
  <2> QED BY <2>1, <2>2 DEF Orderly, Removed
<1>10. ASSUME Fill PROVE Orderly'
  <2>1. app'.ok = app.ok /\ app'.dialog = app.dialog /\ app'.tables = app.tables
      BY <1>10, FillMoves DEF TypeInv, AppOK, Apps
  <2>2. /\ Phase \in {"import", "words"} => Phase' = "read"
        /\ Phase = List => Phase' = "select"
        /\ Phase = "wanxiang" => Phase' = "wanxiang_pro"
        /\ Phase = "wanxiang_pro" => Phase' = "end"
        /\ Phase \in Writes /\ UNCHANGED <<sync, upset>>
      BY <1>10, FillMoves DEF history
  <2> QED BY <2>1, <2>2 DEF Orderly, Writes, Schemas, List
<1>11. ASSUME Read PROVE Orderly'
    BY <1>11, ReadMoves DEF Orderly, Schemas, List, history
<1>12. ASSUME Select PROVE Orderly'
    BY <1>12, SelectMoves DEF Orderly, Schemas, List, history
<1>13. ASSUME End PROVE Orderly'
    BY <1>13, EndMoves DEF Orderly, Schemas, List
<1>14. ASSUME CloseApp PROVE Orderly'
    BY <1>14, CloseMoves DEF Orderly, Schemas, List
<1>15. ASSUME PostApply PROVE Orderly'
    BY <1>15, AppKept DEF PostApply, Orderly, history, Removed
<1>16. ASSUME NEW noticed \in BOOLEAN, WriteFails(noticed)
      PROVE  Orderly'
  <2>1. /\ ~(noticed /\ Phase # "words") =>
                 /\ app'.ok = app.ok
                 /\ Phase \in {"import", "words"} => Phase' = "read"
                 /\ Phase = List => Phase' = "select"
                 /\ Phase = "wanxiang" => Phase' = "wanxiang_pro"
                 /\ Phase = "wanxiang_pro" => Phase' = "end"
        /\ noticed /\ Phase # "words" => Phase' = "end"
        /\ Phase \in Writes /\ app'.dialog = app.dialog /\ app'.tables = app.tables
        /\ sync' = sync /\ (upset => upset')
      BY <1>16, FailMoves
  <2> QED BY <2>1 DEF Orderly, Writes, Schemas, List
<1>17. ASSUME NEW kept \in SUBSET Schemas, Drop(kept)
      PROVE  Orderly'
  <2>1. Phase = "drop" /\ Phase' = "end" /\ sync' = sync /\ (upset => upset')
      BY <1>17, DropMoves
  <2> QED BY <2>1 DEF Orderly, Schemas, List
<1>18. ASSUME NEW t \in Tables, NEW gone \in BOOLEAN, Remove(t, gone)
      PROVE  Orderly'
  <2>1. app'.ok = app.ok /\ app'.dialog = app.dialog /\ app'.entries = app.entries
        /\ app'.rows = [app.rows EXCEPT ![t] = "none"]
    <3>1. app' = [app EXCEPT !.plan = Tail(app.plan), !.rows[t] = "none"]
        BY <1>18, RemoveMoves
    <3> QED BY <3>1 DEF TypeInv, AppOK, Apps
  <2>2. Phase = "remove" /\ Phase' \in {"remove", List} /\ UNCHANGED <<sync, upset>>
      BY <1>18, RemoveMoves DEF history
  <2>3. Removed' \subseteq Removed
      BY <2>1 DEF Removed, TypeInv, AppOK, Apps
  <2> QED BY <2>1, <2>2, <2>3 DEF Orderly, Schemas, List
<1>19. ASSUME NEW o \in Others, BeginRestore(o)
      PROVE  Orderly'
    BY <1>19, AppKept, Stepping DEF BeginRestore, Orderly, TypeInv, Removed
<1>20. ASSUME NEW f \in Files, OpenRestored(f)
      PROVE  Orderly'
    BY <1>20, AppKept DEF OpenRestored, Orderly, TypeInv, Syncs, Removed
<1>21. ASSUME FillRestored PROVE Orderly'
    BY <1>21, AppKept DEF FillRestored, Orderly, TypeInv, Syncs, Removed
<1>22. ASSUME EndRestore PROVE Orderly'
    BY <1>22, AppKept DEF EndRestore, Orderly, TypeInv, Syncs, Removed
<1>23. ASSUME RestoreFails PROVE Orderly'
    BY <1>23, AppKept DEF RestoreFails, Orderly, TypeInv, Syncs, Removed
<1>24. ASSUME TimerFires PROVE Orderly'
    BY <1>24, AppKept DEF TimerFires, Orderly, history, Removed
<1>25. ASSUME StartEngine PROVE Orderly'
    BY <1>25, AppKept DEF StartEngine, Orderly, history, Removed
<1>26. ASSUME StopEngine PROVE Orderly'
    BY <1>26, AppKept DEF StopEngine, Orderly, history, Removed
<1>27. ASSUME Compile PROVE Orderly'
    BY <1>27, AppKept DEF Compile, Orderly, history, Removed
<1> QED
    BY <1>1, <1>2, <1>3, <1>4, <1>5, <1>6, <1>7, <1>8, <1>9, <1>10, <1>11,
       <1>12, <1>13, <1>14, <1>15, <1>16, <1>17, <1>18, <1>19, <1>20,
       <1>21, <1>22, <1>23, <1>24, <1>25, <1>26, <1>27
    DEF Next, UserStep, AppStep, SyncStep, EngineStep

\* A step that leaves the restore alone, and one of an operation: there is none
\* during a restore, or two programs write at a time.
LEMMA RestoringKept ==
    ASSUME Restoring, UNCHANGED <<disk, switches, sync>>, off \subseteq off', upset => upset'
    PROVE  Restoring'
BY DEF Restoring, Holds

LEMMA RestoringBusy ==
    ASSUME Restoring, Orderly, sync' = sync, Phase # "rest", upset => upset'
    PROVE  Restoring'
BY DEF Restoring, Orderly, Holds

LEMMA RestoringNext ==
    ASSUME TypeInv, Orderly, Restoring, Next
    PROVE  Restoring'
<1>1. ASSUME NEW k \in {"user", "imported"}, NEW saved \in BOOLEAN, Toggle(k, saved)
      PROVE  Restoring'
  <2>1. sync' = sync /\ disk' = disk /\ off' = off /\ upset' = (upset \/ sync.on)
      BY <1>1, ToggleMoves
  <2> QED BY <2>1 DEF Restoring, Holds
<1>2. ASSUME NEW c \in Contents, EditWords(c)
      PROVE  Restoring'
  <2>1. UNCHANGED <<disk, switches, sync>> /\ off \subseteq off' /\ (upset => upset')
      BY <1>2, EditMoves DEF history
  <2> QED BY <2>1, RestoringKept
<1>3. ASSUME OpenDialog PROVE Restoring'
  <2>1. UNCHANGED <<disk, switches, sync>> /\ off \subseteq off' /\ (upset => upset')
      BY <1>3, DialogMoves DEF history
  <2> QED BY <2>1, RestoringKept
<1>4. ASSUME Cancel PROVE Restoring'
  <2>1. UNCHANGED <<disk, switches, sync>> /\ off \subseteq off' /\ (upset => upset')
      BY <1>4, DialogMoves DEF history
  <2> QED BY <2>1, RestoringKept
<1>5. ASSUME Done PROVE Restoring'
  <2>1. UNCHANGED <<disk, switches, sync>> /\ off \subseteq off' /\ (upset => upset')
      BY <1>5, DoneMoves DEF history
  <2> QED BY <2>1, RestoringKept
<1>6. ASSUME ResetDefaultSettings PROVE Restoring'
  <2>1. sync' = sync /\ disk' = disk /\ "reset" \in off' /\ upset' = upset
      BY <1>6 DEF ResetDefaultSettings
  <2> QED BY <2>1 DEF Restoring, Holds
<1>7. ASSUME NEW t \in Tables, NEW state \in {"off", "on", "removed"}, ChangeRow(t, state)
      PROVE  Restoring'
  <2>1. UNCHANGED <<disk, switches, sync>> /\ off \subseteq off' /\ (upset => upset')
      BY <1>7, DialogMoves DEF history
  <2> QED BY <2>1, RestoringKept
<1>8. ASSUME NEW t \in Tables, NEW c \in Contents, ImportManagedDictionary(t, c)
      PROVE  Restoring'
  <2>1. UNCHANGED <<disk, switches, sync>> /\ off \subseteq off' /\ (upset => upset')
      BY <1>8, ImportMoves DEF history
  <2> QED BY <2>1, RestoringKept
<1>9. ASSUME Open PROVE Restoring'
  <2>1. Phase # "rest" /\ sync' = sync /\ (upset => upset')
      BY <1>9, OpenMoves DEF Writes, Schemas, List, history
  <2> QED BY <2>1, RestoringBusy
<1>10. ASSUME Fill PROVE Restoring'
  <2>1. Phase # "rest" /\ sync' = sync /\ (upset => upset')
      BY <1>10, FillMoves DEF Writes, Schemas, List, history
  <2> QED BY <2>1, RestoringBusy
<1>11. ASSUME Read PROVE Restoring'
  <2>1. Phase # "rest" /\ sync' = sync /\ (upset => upset')
      BY <1>11, ReadMoves DEF Writes, Schemas, List, history
  <2> QED BY <2>1, RestoringBusy
<1>12. ASSUME Select PROVE Restoring'
  <2>1. Phase # "rest" /\ sync' = sync /\ (upset => upset')
      BY <1>12, SelectMoves DEF Writes, Schemas, List, history
  <2> QED BY <2>1, RestoringBusy
<1>13. ASSUME End PROVE Restoring'
  <2>1. Phase # "rest" /\ sync' = sync /\ (upset => upset')
      BY <1>13, EndMoves DEF Writes, Schemas, List, history
  <2> QED BY <2>1, RestoringBusy
<1>14. ASSUME CloseApp PROVE Restoring'
  <2>1. CASE Phase = "rest"
    <3>1. UNCHANGED <<disk, switches, sync, off, upset>>
        BY <1>14, <2>1, CloseMoves
    <3> QED BY <3>1, RestoringKept
  <2>2. CASE Phase # "rest"
    <3>1. sync' = sync /\ (upset => upset')
        BY <1>14, CloseMoves
    <3> QED BY <2>2, <3>1, RestoringBusy
  <2> QED BY <2>1, <2>2
<1>15. ASSUME PostApply PROVE Restoring'
  <2>1. UNCHANGED <<disk, switches, sync>> /\ off \subseteq off' /\ (upset => upset')
      BY <1>15 DEF PostApply, history
  <2> QED BY <2>1, RestoringKept
<1>16. ASSUME NEW noticed \in BOOLEAN, WriteFails(noticed)
      PROVE  Restoring'
  <2>1. Phase # "rest" /\ sync' = sync /\ (upset => upset')
      BY <1>16, FailMoves DEF Writes, Schemas, List, history
  <2> QED BY <2>1, RestoringBusy
<1>17. ASSUME NEW kept \in SUBSET Schemas, Drop(kept)
      PROVE  Restoring'
  <2>1. Phase # "rest" /\ sync' = sync /\ (upset => upset')
      BY <1>17, DropMoves DEF Writes, Schemas, List, history
  <2> QED BY <2>1, RestoringBusy
<1>18. ASSUME NEW t \in Tables, NEW gone \in BOOLEAN, Remove(t, gone)
      PROVE  Restoring'
  <2>1. Phase # "rest" /\ sync' = sync /\ (upset => upset')
      BY <1>18, RemoveMoves DEF Writes, Schemas, List, history
  <2> QED BY <2>1, RestoringBusy
<1>19. ASSUME NEW o \in Others, BeginRestore(o)
      PROVE  Restoring'
  <2>1. /\ sync'.on /\ sync'.todo = Holds(o) /\ sync'.file = NoFile /\ sync'.other = o
        /\ sync'.whole = ({List, UserWords} \cup Schemas \subseteq Holds(o))
        /\ switches' = o.switches
      BY <1>19 DEF BeginRestore
  <2> QED BY <2>1 DEF Restoring, Holds
<1>20. ASSUME NEW f \in Files, OpenRestored(f)
      PROVE  Restoring'
  <2>1. /\ sync'.on /\ sync'.todo = sync.todo \ {f} /\ sync'.file = f
        /\ sync'.other = sync.other /\ sync'.whole = sync.whole
        /\ UNCHANGED <<switches, upset>> /\ off \subseteq off'
        /\ sync.on /\ sync.file = NoFile /\ f \in sync.todo
        /\ \A g \in Files : g # f => disk'[g] = disk[g]
      BY <1>20 DEF OpenRestored, TypeInv, Syncs, DiskOK
  <2> QED BY <2>1, LexiconAssumption DEF Restoring, Holds
<1>21. ASSUME FillRestored PROVE Restoring'
  <2>1. /\ sync'.on /\ sync'.todo = sync.todo /\ sync'.file = NoFile
        /\ sync'.other = sync.other /\ sync'.whole = sync.whole
        /\ UNCHANGED <<switches, upset>> /\ off \subseteq off'
        /\ sync.on /\ sync.file # NoFile
        /\ \A g \in Files : disk'[g] = IF g = sync.file THEN sync.other.disk[g] ELSE disk[g]
      BY <1>21 DEF FillRestored, TypeInv, Syncs, DiskOK
  <2> QED BY <2>1 DEF Restoring, Holds
<1>22. ASSUME EndRestore PROVE Restoring'
  <2>1. ~sync'.on /\ sync'.file = NoFile /\ sync'.todo = {}
      BY <1>22 DEF EndRestore, TypeInv, Syncs
  <2> QED BY <2>1 DEF Restoring
<1>23. ASSUME RestoreFails PROVE Restoring'
  <2>1. ~sync'.on /\ sync'.file = NoFile /\ sync'.todo = {}
      BY <1>23 DEF RestoreFails, TypeInv, Syncs
  <2> QED BY <2>1 DEF Restoring
<1>24. ASSUME TimerFires PROVE Restoring'
  <2>1. UNCHANGED <<disk, switches, sync>> /\ off \subseteq off' /\ (upset => upset')
      BY <1>24 DEF TimerFires, history
  <2> QED BY <2>1, RestoringKept
<1>25. ASSUME StartEngine PROVE Restoring'
  <2>1. UNCHANGED <<disk, switches, sync>> /\ off \subseteq off' /\ (upset => upset')
      BY <1>25 DEF StartEngine, history
  <2> QED BY <2>1, RestoringKept
<1>26. ASSUME StopEngine PROVE Restoring'
  <2>1. UNCHANGED <<disk, switches, sync>> /\ off \subseteq off' /\ (upset => upset')
      BY <1>26 DEF StopEngine, history
  <2> QED BY <2>1, RestoringKept
<1>27. ASSUME Compile PROVE Restoring'
  <2>1. UNCHANGED <<disk, switches, sync>> /\ off \subseteq off' /\ (upset => upset')
      BY <1>27 DEF Compile, history
  <2> QED BY <2>1, RestoringKept
<1> QED
    BY <1>1, <1>2, <1>3, <1>4, <1>5, <1>6, <1>7, <1>8, <1>9, <1>10, <1>11,
       <1>12, <1>13, <1>14, <1>15, <1>16, <1>17, <1>18, <1>19, <1>20,
       <1>21, <1>22, <1>23, <1>24, <1>25, <1>26, <1>27
    DEF Next, UserStep, AppStep, SyncStep, EngineStep
-----------------------------------------------------------------------------
(* The aggregates are those of the list and the switches.                  *)
LEMMA WantedKept ==
    ASSUME disk'[List] = disk[List], disk'[UserWords] = disk[UserWords], switches' = switches
    PROVE  Wanted' = Wanted
BY DEF Wanted, WantedOf, ListOf, HasWords

\* What the files and switches say is the same when they are.
LEMMA SameDisk ==
    ASSUME disk' = disk, switches' = switches
    PROVE  Wanted' = Wanted
BY DEF Wanted, WantedOf, ListOf, HasWords

\* Steps after which nothing, or the same, is owed to the aggregates.
LEMMA AggregatingKept ==
    ASSUME Aggregating, UNCHANGED <<disk, switches, app>>, off' = off
    PROVE  Aggregating'
BY SameDisk, AppKept DEF Aggregating, Unchanged

LEMMA AggregatingElsewhere ==
    ASSUME Phase' \in {"remove", "read", "words", "import", List},
           Phase' = "import" => app'.opened,
           Phase' = List => ~app'.opened
    PROVE  Aggregating'
BY DEF Aggregating, Unchanged, Schemas, List

LEMMA AggregatingRests ==
    ASSUME Aggregating, Unchanged, disk' = disk, switches' = switches, off' = off,
           Phase' \in {"rest", "import", "end"}, ~app'.opened
    PROVE  Aggregating'
BY SameDisk DEF Aggregating, Unchanged, Schemas, List

\* What the step of an aggregate writes.
LEMMA AggregateWritten ==
    ASSUME NEW tables, tables # {}
    PROVE  Aggregate(tables) = [imports |-> tables]
BY DEF Aggregate

LEMMA AggregatingNext ==
    ASSUME TypeInv, Orderly, Restoring, Aggregating, Next
    PROVE  Aggregating'
<1>1. ASSUME NEW k \in {"user", "imported"}, NEW saved \in BOOLEAN, Toggle(k, saved)
      PROVE  Aggregating'
  <2>1. /\ Phase' \in {"remove", "read", "words", List} /\ ~app'.opened
      BY <1>1, ToggleMoves
  <2>2. Phase' # "import"
      BY <2>1 DEF List
  <2>3. Phase' \in {"remove", "read", "words", "import", List}
      BY <2>1
  <2> QED BY <2>1, <2>2, <2>3, AggregatingElsewhere, Zenon
<1>2. ASSUME NEW c \in Contents, EditWords(c)
      PROVE  Aggregating'
  <2>1. /\ Phase' \in {"remove", "read", "words", List} /\ ~app'.opened
      BY <1>2, EditMoves
  <2>2. Phase' # "import"
      BY <2>1 DEF List
  <2>3. Phase' \in {"remove", "read", "words", "import", List}
      BY <2>1
  <2> QED BY <2>1, <2>2, <2>3, AggregatingElsewhere, Zenon
<1>3. ASSUME OpenDialog PROVE Aggregating'
  <2>1. /\ Phase = "rest" /\ Phase' = "rest" /\ ~app'.opened
        /\ UNCHANGED <<disk, switches, off>>
      BY <1>3, DialogMoves DEF history
  <2> QED BY <2>1, AggregatingRests DEF Unchanged
<1>4. ASSUME Cancel PROVE Aggregating'
  <2>1. /\ Phase = "rest" /\ Phase' = "rest" /\ ~app'.opened
        /\ UNCHANGED <<disk, switches, off>>
      BY <1>4, DialogMoves DEF history
  <2> QED BY <2>1, AggregatingRests DEF Unchanged
<1>5. ASSUME Done PROVE Aggregating'
  <2>1. /\ Phase' \in {"remove", "read", "words", List} /\ ~app'.opened
      BY <1>5, DoneMoves
  <2>2. Phase' # "import"
      BY <2>1 DEF List
  <2>3. Phase' \in {"remove", "read", "words", "import", List}
      BY <2>1
  <2> QED BY <2>1, <2>2, <2>3, AggregatingElsewhere, Zenon
<1>6. ASSUME ResetDefaultSettings PROVE Aggregating'
  <2>1. off' # {}
      BY <1>6 DEF ResetDefaultSettings
  <2> QED BY <2>1 DEF Aggregating
<1>7. ASSUME NEW t \in Tables, NEW state \in {"off", "on", "removed"}, ChangeRow(t, state)
      PROVE  Aggregating'
  <2>1. /\ Phase = "rest" /\ Phase' = "rest" /\ ~app'.opened
        /\ UNCHANGED <<disk, switches, off>>
      BY <1>7, DialogMoves DEF history
  <2> QED BY <2>1, AggregatingRests DEF Unchanged
<1>8. ASSUME NEW t \in Tables, NEW c \in Contents, ImportManagedDictionary(t, c)
      PROVE  Aggregating'
  <2>1. /\ Phase = "rest" /\ Phase' = "import" /\ ~app'.opened
        /\ UNCHANGED <<disk, switches, off>>
      BY <1>8, ImportMoves
  <2> QED BY <2>1, AggregatingRests DEF Unchanged
<1>9. ASSUME Open PROVE Aggregating'
  <2>1. /\ Phase' = Phase /\ app'.opened /\ Phase \in Writes /\ FileOf(Phase) \in Files
        /\ app'.tables = app.tables /\ app'.entries = app.entries
        /\ app'.flags = IF Phase = List THEN switches ELSE app.flags
    <3>1. app' = [app EXCEPT !.opened = TRUE,
                             !.flags = IF Phase = List THEN switches ELSE app.flags]
        BY <1>9, OpenMoves
    <3>2. Phase' = Phase /\ app'.opened /\ Phase \in Writes /\ FileOf(Phase) \in Files
        BY <1>9, OpenMoves
    <3> QED BY <3>1, <3>2 DEF TypeInv, AppOK, Apps
  <2>2. switches' = switches
      BY <1>9, OpenMoves
  <2>3. CASE Phase \in {"import", "words"}
      BY <2>1, <2>3, AggregatingElsewhere DEF List
  <2>4. CASE Phase = List
      BY <2>1, <2>2, <2>4 DEF Aggregating, Unchanged, Schemas, List
  <2>5. CASE Phase \in Schemas
    <3>1. off' = off
        BY <1>9, <2>5, OpenMoves DEF Schemas, List
    <3>2. disk' = [disk EXCEPT ![Phase] = Truncated(Phase)]
        BY <1>9, <2>5, OpenMoves, Targets
    <3>3. disk'[List] = disk[List] /\ disk'[UserWords] = disk[UserWords]
        BY <2>5, <3>2, FileKinds
    <3>4. Wanted' = Wanted
        BY <2>2, <3>3, WantedKept
    <3>5. Phase = "wanxiang_pro" => disk'["wanxiang"] = disk["wanxiang"]
        BY <3>2
    <3> QED BY <2>1, <2>2, <2>5, <3>1, <3>3, <3>4, <3>5
            DEF Aggregating, Unchanged, Schemas, List
  <2> QED BY <2>1, <2>3, <2>4, <2>5 DEF Writes
<1>10. ASSUME Fill PROVE Aggregating'
  <2>1. /\ Phase \in Writes /\ app.opened /\ ~app'.opened
        /\ Phase \in {"import", "words"} => Phase' = "read"
        /\ Phase = List => Phase' = "select"
        /\ Phase = "wanxiang" => Phase' = "wanxiang_pro"
        /\ Phase = "wanxiang_pro" => Phase' = "end"
        /\ FileOf(Phase) \in Files
        /\ disk' = [disk EXCEPT ![FileOf(Phase)] = ValueOf(Phase)]
        /\ switches' = switches /\ off' = off
      BY <1>10, FillMoves DEF history
  <2>2. app'.tables = app.tables /\ app'.entries = app.entries /\ app'.flags = app.flags
    <3>1. app' = [app EXCEPT !.opened = FALSE, !.plan = Tail(app.plan)]
        BY <1>10, FillMoves
    <3> QED BY <3>1 DEF TypeInv, AppOK, Apps
  <2>3. CASE Phase \in {"import", "words"}
      BY <2>1, <2>3, AggregatingElsewhere DEF List
  <2>4. CASE Phase = List
    <3>1. disk'[List] = app.entries
        BY <2>1, <2>4, Targets, FileKinds DEF TypeInv, DiskOK
    <3> QED BY <2>1, <2>2, <2>4, <3>1 DEF Aggregating, Unchanged, Schemas, List
  <2>5. ASSUME Phase \in Schemas
        PROVE  /\ disk'[Phase] = [imports |-> app.tables]
               /\ \A f \in Files : f # Phase => disk'[f] = disk[f]
               /\ disk'[List] = disk[List] /\ Wanted' = Wanted
               /\ app.tables # {}
    <3>1. disk' = [disk EXCEPT ![Phase] = [imports |-> app.tables]]
        BY <2>1, <2>5, Targets
    <3>2. disk'[Phase] = [imports |-> app.tables]
          /\ \A f \in Files : f # Phase => disk'[f] = disk[f]
        BY <2>5, <3>1, FileKinds DEF TypeInv, DiskOK
    <3>3. disk'[List] = disk[List] /\ disk'[UserWords] = disk[UserWords]
        BY <2>5, <3>2, FileKinds
    <3>4. Wanted' = Wanted
        BY <2>1, <3>3, WantedKept
    <3> QED BY <2>5, <3>2, <3>3, <3>4 DEF Orderly
  <2>6. CASE Phase = "wanxiang"
    <3>1. Phase \in Schemas
        BY <2>6 DEF Schemas
    <3>2. disk'["wanxiang"] = Aggregate(app.tables)
        BY <2>5, <2>6, <3>1, AggregateWritten
    <3> QED BY <2>1, <2>2, <2>5, <2>6, <3>1, <3>2 DEF Aggregating, Unchanged, Schemas, List
  <2>7. CASE Phase = "wanxiang_pro"
    <3>1. Phase \in Schemas /\ "wanxiang" \in Files
        BY <2>7, FileKinds DEF Schemas
    <3>2. disk'["wanxiang_pro"] = Aggregate(app.tables)
        BY <2>5, <2>7, <3>1, AggregateWritten
    <3>3. disk'["wanxiang"] = disk["wanxiang"]
        BY <2>5, <2>7, <3>1
    <3> QED BY <2>1, <2>2, <2>5, <2>7, <3>1, <3>2, <3>3 DEF Aggregating, Unchanged, Schemas, List
  <2> QED BY <2>1, <2>3, <2>4, <2>6, <2>7 DEF Writes, Schemas
<1>11. ASSUME Read PROVE Aggregating'
  <2>1. /\ Phase' \in {"remove", "read", "words", List} /\ ~app'.opened
      BY <1>11, ReadMoves
  <2>2. Phase' # "import"
      BY <2>1 DEF List
  <2>3. Phase' \in {"remove", "read", "words", "import", List}
      BY <2>1
  <2> QED BY <2>1, <2>2, <2>3, AggregatingElsewhere, Zenon
<1>12. ASSUME Select PROVE Aggregating'
  <2>1. /\ Phase = "select" /\ ~app'.opened
        /\ app'.tables = EnabledTables(app.flags, app.entries, HasWords(disk))
        /\ Phase' = IF app'.tables = {} THEN "drop" ELSE "wanxiang"
        /\ app'.entries = app.entries /\ app'.flags = app.flags
        /\ disk' = disk /\ switches' = switches /\ off' = off
      BY <1>12, SelectMoves DEF history
  <2>2. ASSUME off = {}
        PROVE  Wanted = app'.tables /\ disk[List] = app.entries /\ app.flags = switches
    <3>1. disk[List] = app.entries /\ app.flags = switches
        BY <2>1, <2>2 DEF Aggregating
    <3>2. ListOf(disk) = app.entries
        BY <3>1, Values DEF ListOf, TypeInv, AppOK, Apps
    <3> QED BY <2>1, <3>1, <3>2 DEF Wanted, WantedOf
  <2>3. Wanted' = Wanted
      BY <2>1, SameDisk
  <2> QED BY <2>1, <2>2, <2>3 DEF Aggregating, Unchanged, Schemas, List
<1>13. ASSUME End PROVE Aggregating'
  <2>1. /\ Phase = "end" /\ Phase' = "rest" /\ ~app'.opened
        /\ UNCHANGED <<disk, switches, off>>
      BY <1>13, EndMoves
  <2> QED BY <2>1, AggregatingRests DEF Unchanged
<1>14. ASSUME CloseApp PROVE Aggregating'
  <2>1. CASE Phase = "rest"
    <3>1. Phase' = "rest" /\ ~app'.opened /\ UNCHANGED <<disk, switches, off>>
        BY <1>14, <2>1, CloseMoves
    <3> QED BY <2>1, <3>1, AggregatingRests DEF Unchanged
  <2>2. CASE Phase # "rest"
    <3>1. off' # {}
        BY <1>14, <2>2, CloseMoves
    <3> QED BY <3>1 DEF Aggregating
  <2> QED BY <2>1, <2>2
<1>15. ASSUME PostApply PROVE Aggregating'
    BY <1>15, AggregatingKept DEF PostApply, history
<1>16. ASSUME NEW noticed \in BOOLEAN, WriteFails(noticed)
      PROVE  Aggregating'
  <2>1. CASE ~(~app.opened /\ Phase \in {"import", "words"})
    <3>1. off' # {}
        BY <1>16, <2>1, FailMoves
    <3> QED BY <3>1 DEF Aggregating
  <2>2. CASE ~app.opened /\ Phase = "import"
    <3>1. /\ Phase' = "end" /\ ~app'.opened /\ UNCHANGED <<disk, switches, off>>
        BY <1>16, <2>2, FailMoves
    <3> QED BY <2>2, <3>1, AggregatingRests DEF Unchanged
  <2>3. CASE ~app.opened /\ Phase = "words"
    <3>1. Phase' = "read" /\ ~app'.opened
        BY <1>16, <2>3, FailMoves
    <3> QED BY <3>1, AggregatingElsewhere DEF List
  <2> QED BY <2>1, <2>2, <2>3
<1>17. ASSUME NEW kept \in SUBSET Schemas, Drop(kept)
      PROVE  Aggregating'
  <2>1. CASE kept = {}
    <3>1. /\ Phase = "drop" /\ Phase' = "end" /\ ~app'.opened
          /\ disk' = [f \in Files |-> IF f \in Schemas THEN NoFile ELSE disk[f]]
          /\ off' = off /\ switches' = switches
        BY <1>17, <2>1, DropMoves
    <3>2. disk'[List] = disk[List] /\ disk'[UserWords] = disk[UserWords]
        BY <3>1, FileKinds
    <3>3. Wanted' = Wanted
        BY <3>1, <3>2, WantedKept
    <3>4. \A s \in Schemas : disk'[s] = NoFile
        BY <3>1, FileKinds
    <3> QED BY <3>1, <3>3, <3>4 DEF Aggregating, Unchanged, Aggregate, Schemas, List
  <2>2. CASE kept # {}
    <3>1. off' # {}
        BY <1>17, <2>2, DropMoves
    <3> QED BY <3>1 DEF Aggregating
  <2> QED BY <2>1, <2>2
<1>18. ASSUME NEW t \in Tables, NEW gone \in BOOLEAN, Remove(t, gone)
      PROVE  Aggregating'
  <2>1. /\ Phase' \in {"remove", "read", "words", List} /\ ~app'.opened
      BY <1>18, RemoveMoves
  <2>2. Phase' # "import"
      BY <2>1 DEF List
  <2>3. Phase' \in {"remove", "read", "words", "import", List}
      BY <2>1
  <2> QED BY <2>1, <2>2, <2>3, AggregatingElsewhere, Zenon
<1>19. ASSUME NEW o \in Others, BeginRestore(o)
      PROVE  Aggregating'
  <2>1. off' # {}
      BY <1>19 DEF BeginRestore
  <2> QED BY <2>1 DEF Aggregating
<1>20. ASSUME NEW f \in Files, OpenRestored(f)
      PROVE  Aggregating'
  <2>1. off' # {}
      BY <1>20 DEF OpenRestored
  <2> QED BY <2>1 DEF Aggregating
<1>21. ASSUME FillRestored PROVE Aggregating'
  <2>1. off' # {}
      BY <1>21 DEF FillRestored
  <2> QED BY <2>1 DEF Aggregating
<1>22. ASSUME EndRestore PROVE Aggregating'
  <2>1. /\ UNCHANGED <<disk, switches, app>> /\ sync.on /\ sync.file = NoFile /\ sync.todo = {}
        /\ off' = IF sync.whole /\ ~upset THEN off \ {"restored"} ELSE off
      BY <1>22 DEF EndRestore
  <2>2. CASE off' = off
      BY <2>1, <2>2, AggregatingKept
  <2>3. CASE off' # {}
      BY <2>3 DEF Aggregating
  <2>4. CASE off' = {} /\ off' # off
    <3>1. sync.whole /\ ~upset /\ "reset" \notin off
        BY <2>1, <2>4
    <3>2. /\ Phase = "rest" /\ switches = sync.other.switches /\ sync.other \in Others
          /\ \A f \in {List, UserWords} \cup Schemas : disk[f] = sync.other.disk[f]
        BY <2>1, <3>1, LexiconAssumption DEF Orderly, Restoring, Holds
    <3>3. Wanted = WantedOf(sync.other.disk, sync.other.switches)
        BY <3>2 DEF Wanted, WantedOf, ListOf, HasWords
    <3>4. \A s \in Schemas : disk[s] = Aggregate(Wanted)
        BY <3>2, <3>3, LexiconAssumption DEF InOrder
    <3>5. Wanted' = Wanted /\ Phase' = Phase /\ disk' = disk
        BY <2>1, SameDisk, AppKept
    <3> QED BY <3>2, <3>4, <3>5 DEF Aggregating, Unchanged, Schemas, List
  <2> QED BY <2>2, <2>3, <2>4
<1>23. ASSUME RestoreFails PROVE Aggregating'
    BY <1>23, AggregatingKept DEF RestoreFails, history
<1>24. ASSUME TimerFires PROVE Aggregating'
    BY <1>24, AggregatingKept DEF TimerFires, history
<1>25. ASSUME StartEngine PROVE Aggregating'
    BY <1>25, AggregatingKept DEF StartEngine, history
<1>26. ASSUME StopEngine PROVE Aggregating'
    BY <1>26, AggregatingKept DEF StopEngine, history
<1>27. ASSUME Compile PROVE Aggregating'
    BY <1>27, AggregatingKept DEF Compile, history
<1> QED
    BY <1>1, <1>2, <1>3, <1>4, <1>5, <1>6, <1>7, <1>8, <1>9, <1>10, <1>11,
       <1>12, <1>13, <1>14, <1>15, <1>16, <1>17, <1>18, <1>19, <1>20,
       <1>21, <1>22, <1>23, <1>24, <1>25, <1>26, <1>27
    DEF Next, UserStep, AppStep, SyncStep, EngineStep
-----------------------------------------------------------------------------
(* What the list and the aggregates name is there and whole.               *)
LEMMA Alone ==
    ASSUME Orderly, Restoring, ~upset, Phase # "rest"
    PROVE  ~sync.on /\ sync.todo = {} /\ sync.file = NoFile
BY DEF Orderly, Restoring

\* The open file, by the phase.
LEMMA WritingIs ==
    ASSUME AppOK
    PROVE  Writing = IF app.opened THEN FileOf(Phase) ELSE NoFile
BY Stepping DEF Writing

\* No file has the name that stands for none.
LEMMA NotFile == \A f \in Files : f # NoFile
BY LexiconAssumption

\* A step of the restore that owes at least as much as before.
LEMMA WholeKept ==
    ASSUME Whole, UNCHANGED <<disk, app>>, upset => upset',
           sync.todo \cup {sync.file} \subseteq sync'.todo \cup {sync'.file},
           sync'.file = sync.file
    PROVE  Whole'
<1>1. Phase' = Phase
    BY AppKept
<1>2. \A t : Good(t)' = Good(t)
    BY DEF Good
<1>3. \A t : Due(t) => Due(t)'
    BY DEF Due, Writing, FileOf, Step
<1>4. \A s : GoodAggregate(s) => GoodAggregate(s)'
    BY <1>2, <1>3 DEF GoodAggregate
<1> QED BY <1>1, <1>2, <1>3, <1>4 DEF Whole, ListedGood, RowsGood, EntriesGood

(* A step that leaves all files alone.                                     *)
LEMMA WholeStill ==
    ASSUME disk' = disk, sync' = sync, Writing' = Writing
    PROVE  /\ \A t : Good(t)' = Good(t) /\ Due(t)' = Due(t)
           /\ \A s : GoodAggregate(s)' = GoodAggregate(s)
           /\ ListedGood' = ListedGood
BY DEF Good, Due, GoodAggregate, ListedGood

\* What a package brings: dictionaries that are whole, and aggregates that name
\* dictionaries it brings, too.
LEMMA OtherTable ==
    ASSUME NEW x \in Others, NEW t \in Tables, x.disk[t] # NoFile
    PROVE  t \in Files /\ x.disk[t] \in Contents
BY LexiconAssumption, FileKinds

LEMMA OtherAggregate ==
    ASSUME NEW x \in Others, NEW s \in Schemas, x.disk[s] # NoFile
    PROVE  /\ x.disk[s] # Cut /\ x.disk[s].imports \subseteq Tables
           /\ \A t \in x.disk[s].imports : x.disk[t] # NoFile
<1> DEFINE d == x.disk
           wanted == WantedOf(d, x.switches)
<1>1. d[s] = Aggregate(wanted) /\ wanted \subseteq Tables
    BY LexiconAssumption DEF InOrder, WantedOf, EnabledTables
<1>2. d[s] = [imports |-> wanted]
  <2> HIDE DEF wanted
  <2> QED BY <1>1 DEF Aggregate
<1>3. d[s] \in Aggregates
  <2> HIDE DEF wanted
  <2> QED BY <1>1, <1>2 DEF Aggregates
<1>4. \A t \in wanted : d[t] # NoFile
  <2> SUFFICES ASSUME NEW t \in wanted PROVE d[t] # NoFile
      OBVIOUS
  <2>1. t \in Tables /\ (\/ HasWords(d) /\ t = UserWords
                         \/ ListOf(d)[t] = "on")
      BY DEF WantedOf, EnabledTables
  <2>2. CASE HasWords(d) /\ t = UserWords
      BY <2>2, Values DEF HasWords
  <2>3. CASE ListOf(d)[t] = "on"
      BY <2>1, <2>3, LexiconAssumption DEF InOrder
  <2> QED BY <2>1, <2>2, <2>3
<1>5. d[s].imports = wanted
  <2> HIDE DEF wanted
  <2> QED BY <1>2
<1> HIDE DEF wanted
<1> QED BY <1>1, <1>3, <1>4, <1>5, Values

LEMMA WholeNext ==
    ASSUME TypeInv, Orderly, Restoring, Whole, Next
    PROVE  Whole'
<1>1. ASSUME NEW k \in {"user", "imported"}, NEW saved \in BOOLEAN, Toggle(k, saved)
      PROVE  Whole'
  <2>1. /\ Phase = "rest" /\ Phase' = "read" /\ ~app.opened /\ ~app'.opened
        /\ disk' = disk /\ sync' = sync /\ upset' = (upset \/ sync.on) /\ app'.rows = app.rows
        /\ ~app'.dialog
      BY <1>1, ToggleMoves
  <2>2. Writing' = Writing
      BY <2>1 DEF Writing
  <2>3. /\ \A u : Good(u)' = Good(u) /\ Due(u)' = Due(u)
        /\ \A s : GoodAggregate(s)' = GoodAggregate(s)
        /\ ListedGood' = ListedGood
      BY <2>1, <2>2, WholeStill
  <2> QED BY <2>1, <2>3 DEF Whole, RowsGood, Schemas, List
<1>2. ASSUME NEW c \in Contents, EditWords(c)
      PROVE  Whole'
  <2>1. /\ Phase = "rest" /\ Phase' = "words" /\ ~app.opened /\ ~app'.opened
        /\ disk' = disk /\ sync' = sync /\ upset' = (upset \/ sync.on) /\ app'.rows = app.rows
        /\ ~app'.dialog
      BY <1>2, EditMoves
  <2>2. Writing' = Writing
      BY <2>1 DEF Writing
  <2>3. /\ \A u : Good(u)' = Good(u) /\ Due(u)' = Due(u)
        /\ \A s : GoodAggregate(s)' = GoodAggregate(s)
        /\ ListedGood' = ListedGood
      BY <2>1, <2>2, WholeStill
  <2> QED BY <2>1, <2>3 DEF Whole, RowsGood, Schemas, List
<1>3. ASSUME OpenDialog PROVE Whole'
  <2>1. /\ Phase = "rest" /\ Phase' = "rest" /\ ~app.opened /\ ~app'.opened
        /\ disk' = disk /\ sync' = sync /\ upset' = upset
      BY <1>3, DialogMoves DEF history
  <2>2. Writing' = Writing
      BY <2>1 DEF Writing
  <2>3. /\ \A u : Good(u)' = Good(u) /\ Due(u)' = Due(u)
        /\ \A s : GoodAggregate(s)' = GoodAggregate(s)
        /\ ListedGood' = ListedGood
      BY <2>1, <2>2, WholeStill
  <2>4. \A t \in Tables : app'.rows[t] \in {"off", "on"} => ListOf(disk)[t] # "none"
      BY <1>3, ManifestTyped DEF OpenDialog, TypeInv, AppOK, Apps, ReadManagedDictionaryManifest
  <2> QED BY <2>1, <2>3, <2>4 DEF Whole, RowsGood, ListedGood, Schemas, List
<1>4. ASSUME Cancel PROVE Whole'
  <2>1. /\ Phase = "rest" /\ Phase' = "rest" /\ ~app.opened /\ ~app'.opened
        /\ disk' = disk /\ sync' = sync /\ upset' = upset
      BY <1>4, DialogMoves DEF history
  <2>2. Writing' = Writing
      BY <2>1 DEF Writing
  <2>3. /\ \A u : Good(u)' = Good(u) /\ Due(u)' = Due(u)
        /\ \A s : GoodAggregate(s)' = GoodAggregate(s)
        /\ ListedGood' = ListedGood
      BY <2>1, <2>2, WholeStill
  <2>4. \A t \in Tables : app'.rows[t] \in {"off", "on"} => FALSE
      BY <1>4, Values DEF Cancel, TypeInv, AppOK, Apps, NoEntries
  <2> QED BY <2>1, <2>3, <2>4 DEF Whole, RowsGood, ListedGood, Schemas, List
<1>5. ASSUME Done PROVE Whole'
  <2>1. /\ Phase = "rest" /\ Phase' \in {"remove", List} /\ ~app.opened /\ ~app'.opened
        /\ disk' = disk /\ sync' = sync /\ upset' = (upset \/ sync.on) /\ app'.rows = app.rows
        /\ app'.entries = RowEntries
      BY <1>5, DoneMoves
  <2>2. Writing' = Writing
      BY <2>1 DEF Writing
  <2>3. /\ \A u : Good(u)' = Good(u) /\ Due(u)' = Due(u)
        /\ \A s : GoodAggregate(s)' = GoodAggregate(s)
        /\ ListedGood' = ListedGood
      BY <2>1, <2>2, WholeStill
  <2>4. ASSUME ~upset' PROVE EntriesGood'
    <3>1. sync.todo = {} /\ sync.file = NoFile /\ Writing = NoFile /\ ~upset
        BY <2>1, <2>4 DEF Restoring, Writing
    <3>2. \A t \in Tables : ~Due(t)
        BY <3>1, NotFile, FileKinds DEF Due
    <3>3. \A t \in Tables : RowEntries[t] # "none" => app.rows[t] \in {"off", "on"}
        BY DEF RowEntries, TypeInv, AppOK, Apps
    <3> QED BY <2>1, <2>3, <3>1, <3>2, <3>3 DEF Whole, RowsGood, EntriesGood
  <2> QED BY <2>1, <2>3, <2>4 DEF Whole, RowsGood, Schemas, List
<1>6. ASSUME ResetDefaultSettings PROVE Whole'
    BY <1>6, WholeKept DEF ResetDefaultSettings
<1>7. ASSUME NEW t \in Tables, NEW state \in {"off", "on", "removed"}, ChangeRow(t, state)
      PROVE  Whole'
  <2>1. /\ Phase = "rest" /\ Phase' = "rest" /\ ~app.opened /\ ~app'.opened
        /\ disk' = disk /\ sync' = sync /\ upset' = upset
      BY <1>7, DialogMoves DEF history
  <2>2. Writing' = Writing
      BY <2>1 DEF Writing
  <2>3. /\ \A u : Good(u)' = Good(u) /\ Due(u)' = Due(u)
        /\ \A s : GoodAggregate(s)' = GoodAggregate(s)
        /\ ListedGood' = ListedGood
      BY <2>1, <2>2, WholeStill
  <2>4. \A u \in Tables : app'.rows[u] \in {"off", "on"} => app.rows[u] \in {"off", "on"}
      BY <1>7 DEF ChangeRow, TypeInv, AppOK, Apps
  <2> QED BY <2>1, <2>3, <2>4 DEF Whole, RowsGood, ListedGood, Schemas, List
<1>8. ASSUME NEW t \in Tables, NEW c \in Contents, ImportManagedDictionary(t, c)
      PROVE  Whole'
  <2>1. /\ Phase = "rest" /\ Phase' = "import" /\ ~app.opened /\ ~app'.opened
        /\ disk' = disk /\ sync' = sync /\ upset' = (upset \/ sync.on) /\ app'.rows = app.rows
        /\ app'.dialog
      BY <1>8, ImportMoves
  <2>2. Writing' = Writing
      BY <2>1 DEF Writing
  <2>3. /\ \A u : Good(u)' = Good(u) /\ Due(u)' = Due(u)
        /\ \A s : GoodAggregate(s)' = GoodAggregate(s)
        /\ ListedGood' = ListedGood
      BY <2>1, <2>2, WholeStill
  <2> QED BY <2>1, <2>3 DEF Whole, RowsGood, Schemas, List
<1>9. ASSUME Open PROVE Whole'
  <2> SUFFICES ASSUME ~upset PROVE Whole'
      BY <1>9, OpenMoves DEF Whole
  <2>0. PICK w \in Files : w = FileOf(Phase)
      BY <1>9, OpenMoves
  <2>1. /\ Phase' = Phase /\ app'.opened /\ Phase \in Writes /\ w \in Files
        /\ disk' = [disk EXCEPT ![w] = Truncated(w)] /\ sync' = sync /\ upset' = upset
      BY <1>9, <2>0, OpenMoves
  <2>2. /\ app'.rows = app.rows /\ app'.entries = app.entries /\ app'.dialog = app.dialog
        /\ app'.name = app.name /\ app'.tables = app.tables
    <3>1. app' = [app EXCEPT !.opened = TRUE,
                             !.flags = IF Phase = List THEN switches ELSE app.flags]
        BY <1>9, OpenMoves
    <3> QED BY <3>1 DEF TypeInv, AppOK, Apps
  <2>3. Phase # "rest" /\ ~app.opened
      BY <1>9, OpenMoves DEF Writes, Schemas, List
  <2>4. sync.todo = {} /\ sync.file = NoFile
      BY <2>3, Alone
  <2>5. Writing = NoFile /\ Writing' = w
    <3>1. Writing = NoFile
        BY <2>3 DEF Writing
    <3>2. app'.plan = app.plan
        BY <1>9 DEF Open, TypeInv, AppOK, Apps
    <3>3. Step' = Step
        BY <3>2 DEF Step
    <3>4. FileOf(Step)' = FileOf(Step)
        BY <2>2, <3>3 DEF FileOf
    <3>5. Step = Phase
        BY <1>9, Stepping DEF Open, TypeInv
    <3> QED BY <2>0, <2>1, <3>1, <3>4, <3>5 DEF Writing
  <2>6. \A f \in Files : f # w => disk'[f] = disk[f]
      BY <2>1 DEF TypeInv, DiskOK
  <2>7. \A t \in Tables : Good(t) \/ Due(t) => (Good(t) \/ Due(t))'
      BY <2>1, <2>4, <2>5, <2>6, FileKinds, NotFile DEF Good, Due
  <2>8. w # List => (ListedGood => ListedGood')
      BY <2>6, <2>7, FileKinds DEF ListedGood, ListOf
  <2>9. RowsGood => RowsGood'
      BY <2>2, <2>7 DEF RowsGood
  <2>10. ASSUME NEW s \in Schemas, s # w, GoodAggregate(s)
         PROVE  GoodAggregate(s)'
    <3>1. s \in Files /\ s # NoFile /\ disk'[s] = disk[s] /\ disk[s] \in States(s)
        BY <2>6, <2>10, FileKinds, NotFile DEF TypeInv, DiskOK
    <3>2. CASE disk[s] = NoFile
        BY <3>1, <3>2 DEF GoodAggregate
    <3>3. CASE disk[s] # NoFile
      <4>1. disk[s] # Cut /\ \A t \in disk[s].imports : Good(t) \/ Due(t)
          BY <2>4, <2>10, <3>1, <3>3 DEF GoodAggregate
      <4>2. disk[s].imports \subseteq Tables
          BY <3>1, <3>3, <4>1, FileKinds DEF Aggregates
      <4> QED BY <2>7, <3>1, <4>1, <4>2 DEF GoodAggregate
    <3> QED BY <3>2, <3>3
  <2>11. CASE Phase \in {"import", "words"}
    <3>1. w \in Tables /\ w # List
        BY <2>0, <2>11, Targets, FileKinds DEF TypeInv, AppOK, Apps
    <3>2. \A s \in Schemas : s # w
        BY <3>1, FileKinds
    <3> QED BY <2>1, <2>2, <2>8, <2>9, <2>10, <2>11, <3>1, <3>2 DEF Whole, Schemas, List
  <2>12. CASE Phase = List
    <3>1. w = List
        BY <2>0, <2>12, Targets
    <3>2. EntriesGood => EntriesGood'
        BY <2>2, <2>6, <3>1, FileKinds DEF EntriesGood, Good
    <3> QED BY <2>1, <2>2, <2>9, <2>12, <3>2 DEF Whole, Schemas, List
  <2>13. CASE Phase \in Schemas
    <3>1. w = Phase /\ w # List
        BY <2>0, <2>13, Targets, FileKinds
    <3>2. (\A t \in app.tables : Good(t)) => \A t \in app'.tables : Good(t)'
        BY <2>2, <2>6, <2>13, <3>1, FileKinds DEF Good, TypeInv, AppOK, Apps
    <3>3. Phase = "wanxiang_pro" => (GoodAggregate("wanxiang") => GoodAggregate("wanxiang")')
        BY <2>10, <3>1 DEF Schemas
    <3> QED BY <2>1, <2>2, <2>8, <2>9, <2>13, <3>1, <3>2, <3>3 DEF Whole, Schemas, List
  <2> QED BY <2>1, <2>11, <2>12, <2>13 DEF Writes
<1>10. ASSUME Fill PROVE Whole'
  <2> SUFFICES ASSUME ~upset PROVE Whole'
      BY <1>10, FillMoves DEF Whole, history
  <2>0. PICK w \in Files : w = FileOf(Phase)
      BY <1>10, FillMoves
  <2>1. /\ Phase \in Writes /\ app.opened /\ ~app'.opened /\ w \in Files
        /\ Phase \in {"import", "words"} => Phase' = "read"
        /\ Phase = List => Phase' = "select"
        /\ Phase = "wanxiang" => Phase' = "wanxiang_pro"
        /\ Phase = "wanxiang_pro" => Phase' = "end"
        /\ disk' = [disk EXCEPT ![w] = ValueOf(Phase)] /\ sync' = sync /\ upset' = upset
      BY <1>10, <2>0, FillMoves DEF history
  <2>2. /\ app'.rows = app.rows /\ app'.entries = app.entries /\ app'.dialog = app.dialog
        /\ app'.name = app.name /\ app'.tables = app.tables
    <3>1. app' = [app EXCEPT !.opened = FALSE, !.plan = Tail(app.plan)]
        BY <1>10, FillMoves
    <3> QED BY <3>1 DEF TypeInv, AppOK, Apps
  <2>3. Phase # "rest"
      BY <2>1 DEF Writes, Schemas, List
  <2>4. sync.todo = {} /\ sync.file = NoFile
      BY <2>3, Alone
  <2>5. Writing = w
      BY <2>0, <2>1, WritingIs DEF TypeInv
  <2>6. disk'[w] = ValueOf(Phase) /\ \A f \in Files : f # w => disk'[f] = disk[f]
      BY <2>1 DEF TypeInv, DiskOK
  <2>7. \A t \in Tables : t # w => (Good(t) \/ Due(t) => Good(t)')
      BY <2>4, <2>5, <2>6, FileKinds, NotFile DEF Good, Due
  <2>8. ASSUME w \notin Schemas \cup {List} PROVE Good(w)'
    <3>1. Phase \in {"import", "words"}
        BY <2>0, <2>1, <2>8, Targets DEF Writes
    <3>2. ValueOf(Phase) \in Contents
        BY <3>1, Targets DEF TypeInv, AppOK, Apps
    <3> QED BY <2>6, <3>2 DEF Good
  <2>9. \A t \in Tables : Good(t) \/ Due(t) => Good(t)'
      BY <2>7, <2>8, FileKinds
  <2>10. w # List => (ListedGood => ListedGood')
      BY <2>6, <2>9, FileKinds DEF ListedGood, ListOf
  <2>11. RowsGood => RowsGood'
      BY <2>2, <2>9 DEF RowsGood
  <2>12. EntriesGood => EntriesGood'
      BY <2>2, <2>9 DEF EntriesGood
  <2>13. (\A t \in app.tables : Good(t)) => \A t \in app'.tables : Good(t)'
      BY <2>2, <2>9 DEF TypeInv, AppOK, Apps
  <2>14. ASSUME NEW s \in Schemas, s # w, GoodAggregate(s)
         PROVE  GoodAggregate(s)'
    <3>1. s \in Files /\ s # NoFile /\ disk'[s] = disk[s] /\ disk[s] \in States(s)
        BY <2>6, <2>14, FileKinds, NotFile DEF TypeInv, DiskOK
    <3>2. CASE disk[s] = NoFile
        BY <3>1, <3>2 DEF GoodAggregate
    <3>3. CASE disk[s] # NoFile
      <4>1. disk[s] # Cut /\ \A t \in disk[s].imports : Good(t) \/ Due(t)
          BY <2>4, <2>14, <3>1, <3>3 DEF GoodAggregate
      <4>2. disk[s].imports \subseteq Tables
          BY <3>1, <3>3, <4>1, FileKinds DEF Aggregates
      <4> QED BY <2>9, <3>1, <4>1, <4>2 DEF GoodAggregate
    <3> QED BY <3>2, <3>3
  <2>15. CASE Phase \in {"import", "words"}
    <3>1. w \in Tables /\ w # List /\ Phase' = "read" /\ (Phase = "import" => w = app.name)
        BY <2>0, <2>1, <2>15, Targets, FileKinds DEF TypeInv, AppOK, Apps
    <3>2. app'.dialog => Good(app.name)'
        BY <2>2, <2>8, <2>15, <3>1, FileKinds DEF Orderly, Good
    <3> QED BY <2>1, <2>10, <2>11, <2>15, <3>1, <3>2 DEF Whole, Schemas, List
  <2>16. CASE Phase = List
    <3>1. w = List /\ disk'[List] = app.entries /\ Phase' = "select"
        BY <2>0, <2>1, <2>6, <2>16, Targets
    <3>2. EntriesGood
        BY <2>16 DEF Whole
    <3>3. ListedGood'
      <4>1. ListOf(disk)' = app.entries
          BY <3>1, Values DEF ListOf, TypeInv, AppOK, Apps
      <4> QED BY <2>9, <3>2, <4>1 DEF ListedGood, EntriesGood
    <3> QED BY <2>1, <2>11, <2>12, <2>16, <3>1, <3>2, <3>3 DEF Whole, Schemas, List
  <2>17. CASE Phase \in Schemas
    <3>1. w = Phase /\ w # List /\ disk'[w] = [imports |-> app.tables]
        BY <2>0, <2>6, <2>13, <2>17, Targets, FileKinds
    <3>2. \A t \in app.tables : Good(t)
        BY <2>17 DEF Whole
    <3>3. GoodAggregate(w)'
      <4>1. [imports |-> app.tables] \in Aggregates
          BY DEF Aggregates, TypeInv, AppOK, Apps
      <4>2. disk'[w] # Cut /\ disk'[w].imports = app.tables
          BY <3>1, <4>1, Values
      <4>3. \A t \in app.tables : Good(t)'
          BY <2>2, <2>13, <3>2
      <4> QED BY <4>2, <4>3 DEF GoodAggregate
    <3>4. ListedGood /\ RowsGood
        BY <2>17 DEF Whole, Schemas, List
    <3>5. ListedGood' /\ RowsGood'
        BY <2>10, <2>11, <3>1, <3>4
    <3>6. CASE Phase = "wanxiang"
      <4>1. Phase' = "wanxiang_pro" /\ GoodAggregate("wanxiang")'
          BY <2>1, <3>1, <3>3, <3>6
      <4> QED BY <2>2, <2>13, <3>2, <3>5, <4>1 DEF Whole, Schemas, List
    <3>7. CASE Phase = "wanxiang_pro"
      <4>1. GoodAggregate("wanxiang")
          BY <3>7 DEF Whole
      <4>2. GoodAggregate("wanxiang")' /\ GoodAggregate("wanxiang_pro")'
          BY <2>14, <3>1, <3>3, <3>7, <4>1 DEF Schemas
      <4>3. \A s \in Schemas : GoodAggregate(s)'
          BY <4>2 DEF Schemas
      <4> QED BY <2>1, <3>5, <3>7, <4>3 DEF Whole, Schemas, List
    <3> QED BY <2>17, <3>6, <3>7 DEF Schemas
  <2> QED BY <2>1, <2>15, <2>16, <2>17 DEF Writes
<1>11. ASSUME Read PROVE Whole'
  <2>1. /\ ~app.opened /\ ~app'.opened /\ disk' = disk /\ sync' = sync /\ upset' = upset
        /\ Phase = "read" /\ Phase' = List /\ app'.rows = app.rows
        /\ app'.entries = IF app.dialog THEN [ListOf(disk) EXCEPT ![app.name] = "on"]
                          ELSE ListOf(disk)
      BY <1>11, ReadMoves DEF history
  <2>2. Writing' = Writing
      BY <2>1 DEF Writing
  <2>3. /\ \A u : Good(u)' = Good(u) /\ Due(u)' = Due(u)
        /\ \A s : GoodAggregate(s)' = GoodAggregate(s)
        /\ ListedGood' = ListedGood
      BY <2>1, <2>2, WholeStill
  <2>4. ASSUME ~upset PROVE \A t \in Tables : ~Due(t)
    <3>1. sync.todo = {} /\ sync.file = NoFile /\ Writing = NoFile
        BY <2>1, <2>4, Alone DEF Writing
    <3> QED BY <3>1, NotFile, FileKinds DEF Due
  <2>5. ASSUME ~upset PROVE EntriesGood'
    <3>1. ListedGood /\ (app.dialog => Good(app.name))
        BY <2>1, <2>5 DEF Whole, List
    <3>2. \A t \in Tables : app'.entries[t] # "none" =>
             ListOf(disk)[t] # "none" \/ (app.dialog /\ t = app.name)
        BY <2>1, ManifestTyped DEF Entries, ReadManagedDictionaryManifest
    <3> QED BY <2>3, <2>4, <2>5, <3>1, <3>2 DEF EntriesGood, ListedGood
  <2> QED BY <2>1, <2>3, <2>5 DEF Whole, RowsGood, Schemas, List
<1>12. ASSUME Select PROVE Whole'
  <2>1. /\ ~app.opened /\ ~app'.opened /\ disk' = disk /\ sync' = sync /\ upset' = upset
        /\ Phase = "select" /\ Phase' = IF app'.tables = {} THEN "drop" ELSE "wanxiang"
        /\ app'.rows = app.rows
        /\ app'.tables = EnabledTables(app.flags, app.entries, HasWords(disk))
      BY <1>12, SelectMoves DEF history
  <2>2. Writing' = Writing
      BY <2>1 DEF Writing
  <2>3. /\ \A u : Good(u)' = Good(u) /\ Due(u)' = Due(u)
        /\ \A s : GoodAggregate(s)' = GoodAggregate(s)
        /\ ListedGood' = ListedGood
      BY <2>1, <2>2, WholeStill
  <2>4. ASSUME ~upset PROVE \A t \in app'.tables : Good(t)'
    <3>1. EntriesGood
        BY <2>1, <2>4 DEF Whole
    <3>2. HasWords(disk) => Good(UserWords)
        BY DEF HasWords, Good
    <3> QED BY <2>1, <2>3, <3>1, <3>2 DEF EnabledTables, EntriesGood
  <2> QED BY <2>1, <2>3, <2>4 DEF Whole, RowsGood, Schemas, List
<1>13. ASSUME End PROVE Whole'
  <2>1. /\ ~app.opened /\ ~app'.opened /\ disk' = disk /\ sync' = sync /\ upset' = upset
        /\ Phase = "end" /\ Phase' = "rest"
        /\ app'.rows = IF ~app.dialog THEN NoEntries
                       ELSE IF app.ok THEN ListOf(disk) ELSE app.rows
      BY <1>13, EndMoves
  <2>2. Writing' = Writing
      BY <2>1 DEF Writing
  <2>3. /\ \A u : Good(u)' = Good(u) /\ Due(u)' = Due(u)
        /\ \A s : GoodAggregate(s)' = GoodAggregate(s)
        /\ ListedGood' = ListedGood
      BY <2>1, <2>2, WholeStill
  <2>4. \A t \in Tables : NoEntries[t] = "none"
      BY DEF NoEntries
  <2> QED BY <2>1, <2>3, <2>4 DEF Whole, RowsGood, ListedGood, Schemas, List
<1>14. ASSUME CloseApp PROVE Whole'
  <2>1. CASE Phase # "rest"
      BY <1>14, <2>1, CloseMoves DEF Whole
  <2>2. CASE Phase = "rest"
    <3>1. /\ ~app'.opened /\ disk' = disk /\ sync' = sync /\ upset' = upset
          /\ app'.rows = NoEntries /\ Phase' = "rest"
        BY <1>14, <2>2, CloseMoves
    <3>2. Writing' = Writing
        BY <2>2, <3>1, Closed DEF Writing, Writes, Schemas, List
    <3>3. /\ \A t : Good(t)' = Good(t) /\ Due(t)' = Due(t)
          /\ \A s : GoodAggregate(s)' = GoodAggregate(s)
          /\ ListedGood' = ListedGood
        BY <3>1, <3>2, WholeStill
    <3>4. \A t \in Tables : NoEntries[t] = "none"
        BY DEF NoEntries
    <3> QED BY <2>2, <3>1, <3>3, <3>4 DEF Whole, RowsGood, Schemas, List
  <2> QED BY <2>1, <2>2
<1>15. ASSUME PostApply PROVE Whole'
    BY <1>15, WholeKept DEF PostApply, history
<1>16. ASSUME NEW noticed \in BOOLEAN, WriteFails(noticed)
      PROVE  Whole'
  <2>1. CASE ~(~app.opened /\ Phase \in {"import", "words"})
      BY <1>16, <2>1, FailMoves DEF Whole
  <2>2. CASE ~app.opened /\ Phase \in {"import", "words"}
    <3>1. /\ ~app'.opened /\ disk' = disk /\ sync' = sync /\ upset' = upset
          /\ app'.rows = app.rows /\ app'.dialog = app.dialog
          /\ Phase = "import" => Phase' = "end"
          /\ Phase = "words" => Phase' = "read"
        BY <1>16, <2>2, FailMoves
    <3>2. Writing' = Writing
        BY <2>2, <3>1 DEF Writing
    <3>3. /\ \A t : Good(t)' = Good(t) /\ Due(t)' = Due(t)
          /\ \A s : GoodAggregate(s)' = GoodAggregate(s)
          /\ ListedGood' = ListedGood
        BY <3>1, <3>2, WholeStill
    <3>4. Phase = "words" => ~app'.dialog
        BY <3>1 DEF Orderly
    <3> QED BY <2>2, <3>1, <3>3, <3>4 DEF Whole, RowsGood, Schemas, List
  <2> QED BY <2>1, <2>2
<1>17. ASSUME NEW kept \in SUBSET Schemas, Drop(kept)
      PROVE  Whole'
  <2>1. CASE kept # {}
      BY <1>17, <2>1, DropMoves DEF Whole
  <2>2. CASE kept = {}
    <3>1. /\ Phase = "drop" /\ Phase' = "end" /\ ~app.opened /\ ~app'.opened
          /\ disk' = [f \in Files |-> IF f \in Schemas THEN NoFile ELSE disk[f]]
          /\ upset' = upset /\ sync' = sync
        BY <1>17, <2>2, DropMoves
    <3>2. app'.rows = app.rows
      <4>1. app' = [app EXCEPT !.plan = Tail(app.plan)]
          BY <1>17, DropMoves
      <4> QED BY <4>1 DEF TypeInv, AppOK, Apps
    <3>3. Writing' = Writing
        BY <3>1 DEF Writing
    <3>4. disk'[List] = disk[List] /\ (\A t \in Tables : disk'[t] = disk[t])
          /\ \A s \in Schemas : disk'[s] = NoFile
        BY <3>1, FileKinds
    <3>5. \A t \in Tables : Good(t)' = Good(t) /\ Due(t)' = Due(t)
        BY <3>1, <3>3, <3>4 DEF Good, Due
    <3>6. ListedGood' = ListedGood
        BY <3>4, <3>5 DEF ListedGood, ListOf
    <3>7. \A s \in Schemas : GoodAggregate(s)'
        BY <3>4 DEF GoodAggregate
    <3> QED BY <3>1, <3>2, <3>5, <3>6, <3>7 DEF Whole, RowsGood, Schemas, List
  <2> QED BY <2>1, <2>2
<1>18. ASSUME NEW t \in Tables, NEW gone \in BOOLEAN, Remove(t, gone)
      PROVE  Whole'
  <2>1. /\ Phase = "remove" /\ Phase' \in {"remove", List} /\ ~app.opened /\ ~app'.opened
        /\ t \in Removed /\ sync' = sync /\ upset' = upset
        /\ disk' = IF gone THEN [disk EXCEPT ![t] = NoFile] ELSE disk
      BY <1>18, RemoveMoves DEF history
  <2>2. app'.rows = [app.rows EXCEPT ![t] = "none"] /\ app'.entries = app.entries
    <3>1. app' = [app EXCEPT !.plan = Tail(app.plan), !.rows[t] = "none"]
        BY <1>18, RemoveMoves
    <3> QED BY <3>1 DEF TypeInv, AppOK, Apps
  <2>3. Writing' = Writing
      BY <2>1 DEF Writing
  <2>4. \A u \in Tables : u # t => Good(u)' = Good(u) /\ Due(u)' = Due(u)
      BY <2>1, <2>3, FileKinds DEF Good, Due, TypeInv, DiskOK
  <2>5. app.entries[t] = "none"
      BY <2>1 DEF Orderly
  <2>6. EntriesGood => EntriesGood'
      BY <2>2, <2>4, <2>5 DEF EntriesGood
  <2>7. RowsGood => RowsGood'
      BY <2>2, <2>4 DEF RowsGood, TypeInv, AppOK, Apps
  <2> QED BY <2>1, <2>6, <2>7 DEF Whole, Schemas, List
<1>19. ASSUME NEW o \in Others, BeginRestore(o)
      PROVE  Whole'
  <2> SUFFICES ASSUME ~upset' PROVE Whole'
      BY DEF Whole
  <2>1. /\ ~upset /\ app.plan = <<>> /\ UNCHANGED <<disk, app>> /\ ~sync.on
        /\ sync'.file = NoFile /\ (upset => upset')
      BY <1>19 DEF BeginRestore
  <2>2. sync.todo = {} /\ sync.file = NoFile
      BY <2>1 DEF Restoring
  <2> QED BY <2>1, <2>2, WholeKept
<1>20. ASSUME NEW f \in Files, OpenRestored(f)
      PROVE  Whole'
  <2> SUFFICES ASSUME ~upset PROVE Whole'
      BY <1>20 DEF OpenRestored, Whole
  <2>1. /\ sync.on /\ sync.file = NoFile /\ f \in sync.todo /\ app' = app /\ upset' = upset
        /\ disk' = [disk EXCEPT ![f] = Truncated(f)]
        /\ sync'.file = f /\ sync'.todo = sync.todo \ {f}
      BY <1>20 DEF OpenRestored, TypeInv, Syncs
  <2>2. Phase = "rest" /\ Phase' = "rest"
      BY <2>1, AppKept DEF Orderly
  <2>3. \A g \in Files : g # f => disk'[g] = disk[g]
      BY <2>1 DEF TypeInv, DiskOK
  <2>4. Writing' = Writing
      BY <2>1 DEF Writing, FileOf, Step
  <2>5. \A t \in Files : Due(t) => Due(t)'
      BY <2>1, <2>4, NotFile DEF Due
  <2>6. \A t \in Tables : Good(t) \/ Due(t) => (Good(t) \/ Due(t))'
    <3> SUFFICES ASSUME NEW t \in Tables, Good(t) \/ Due(t) PROVE (Good(t) \/ Due(t))'
        OBVIOUS
    <3>1. CASE t = f
        BY <2>1, <3>1 DEF Due
    <3>2. CASE t # f
        BY <2>3, <2>5, <3>2, FileKinds DEF Good
    <3> QED BY <3>1, <3>2
  <2>7. RowsGood => RowsGood'
      BY <2>1, <2>6 DEF RowsGood
  <2>8. ListedGood => ListedGood'
    <3>1. CASE f = List
      <4>1. ListOf(disk)' = NoEntries
          BY <2>1, <3>1, FileKinds, Values DEF ListOf, Truncated, TypeInv, DiskOK
      <4> QED BY <4>1 DEF ListedGood, NoEntries
    <3>2. CASE f # List
        BY <2>3, <2>6, <3>2, FileKinds DEF ListedGood, ListOf
    <3> QED BY <3>1, <3>2
  <2>9. ASSUME NEW s \in Schemas, GoodAggregate(s)
        PROVE  GoodAggregate(s)'
    <3>1. s \in Files /\ s # NoFile /\ disk[s] \in States(s)
        BY FileKinds, NotFile DEF TypeInv, DiskOK
    <3>2. CASE s = f
        BY <2>1, <3>2 DEF GoodAggregate
    <3>3. CASE s # f /\ disk[s] = NoFile
        BY <2>3, <3>1, <3>3 DEF GoodAggregate
    <3>4. CASE s # f /\ disk[s] # NoFile
      <4>1. disk[s] # Cut /\ \A t \in disk[s].imports : Good(t) \/ Due(t)
          BY <2>1, <2>9, <3>1, <3>4 DEF GoodAggregate
      <4>2. disk[s].imports \subseteq Tables
          BY <3>1, <3>4, <4>1, FileKinds DEF Aggregates
      <4>3. disk'[s] = disk[s]
          BY <2>3, <3>1, <3>4
      <4> QED BY <2>6, <4>1, <4>2, <4>3 DEF GoodAggregate
    <3> QED BY <3>2, <3>3, <3>4
  <2> QED BY <2>1, <2>2, <2>7, <2>8, <2>9 DEF Whole, Schemas, List
<1>21. ASSUME FillRestored PROVE Whole'
  <2> SUFFICES ASSUME ~upset PROVE Whole'
      BY <1>21 DEF FillRestored, Whole
  <2> DEFINE f == sync.file
             d == sync.other.disk
  <2>1. /\ sync.on /\ f # NoFile /\ app' = app /\ upset' = upset
        /\ disk' = [disk EXCEPT ![f] = d[f]]
        /\ sync'.file = NoFile /\ sync'.todo = sync.todo
      BY <1>21 DEF FillRestored, TypeInv, Syncs
  <2>2. Phase = "rest" /\ Phase' = "rest"
      BY <2>1, AppKept DEF Orderly
  <2>3. f \in Files /\ d[f] # NoFile
      BY <2>1 DEF Restoring, Holds
  <2>4. disk'[f] = d[f] /\ \A g \in Files : g # f => disk'[g] = disk[g]
      BY <2>1, <2>3 DEF TypeInv, DiskOK
  <2>5. Writing' = Writing
      BY <2>1 DEF Writing, FileOf, Step
  <2>6. sync.other \in Others
      BY <2>1 DEF Restoring
  <2>7. \A t \in Tables : d[t] # NoFile => (Good(t) \/ Due(t))'
    <3> SUFFICES ASSUME NEW t \in Tables, d[t] # NoFile PROVE (Good(t) \/ Due(t))'
        OBVIOUS
    <3>1. t \in Files /\ d[t] \in Contents
        BY <2>6, OtherTable
    <3>2. CASE t = f
        BY <2>4, <3>1, <3>2 DEF Good
    <3>3. CASE t \in sync.todo
        BY <2>1, <3>3 DEF Due
    <3>4. CASE t # f /\ t \notin sync.todo
      <4>1. disk[t] = d[t]
          BY <2>1, <3>1, <3>4 DEF Restoring, Holds
      <4> QED BY <2>4, <3>1, <3>4, <4>1 DEF Good
    <3> QED BY <3>2, <3>3, <3>4
  <2>8. \A t \in Tables : Good(t) \/ Due(t) => (Good(t) \/ Due(t))'
    <3> SUFFICES ASSUME NEW t \in Tables, Good(t) \/ Due(t) PROVE (Good(t) \/ Due(t))'
        OBVIOUS
    <3>1. CASE t = f
        BY <2>3, <2>7, <3>1
    <3>2. CASE t # f
        BY <2>1, <2>4, <2>5, <3>2, FileKinds DEF Good, Due
    <3> QED BY <3>1, <3>2
  <2>9. RowsGood => RowsGood'
      BY <2>1, <2>8 DEF RowsGood
  <2>10. ListedGood => ListedGood'
    <3>1. CASE f = List
      <4>1. ListOf(disk)' = ListOf(d)
          BY <2>4, <3>1 DEF ListOf
      <4>2. \A t \in Tables : ListOf(d)[t] # "none" => d[t] # NoFile
          BY <2>6, LexiconAssumption DEF InOrder
      <4> QED BY <2>7, <4>1, <4>2 DEF ListedGood
    <3>2. CASE f # List
        BY <2>4, <2>8, <3>2, FileKinds DEF ListedGood, ListOf
    <3> QED BY <3>1, <3>2
  <2>11. ASSUME NEW s \in Schemas, GoodAggregate(s)
         PROVE  GoodAggregate(s)'
    <3>1. s \in Files /\ s # NoFile /\ disk[s] \in States(s)
        BY FileKinds, NotFile DEF TypeInv, DiskOK
    <3>2. CASE s = f
      <4>1. d[s] # Cut /\ d[s].imports \subseteq Tables
            /\ \A t \in d[s].imports : d[t] # NoFile
          BY <2>3, <2>6, <3>2, OtherAggregate
      <4>2. disk'[s] = d[s]
          BY <2>4, <3>2
      <4> QED BY <2>7, <4>1, <4>2 DEF GoodAggregate
    <3>3. CASE s # f /\ disk[s] = NoFile
        BY <2>4, <3>1, <3>3 DEF GoodAggregate
    <3>4. CASE s # f /\ disk[s] # NoFile
      <4>1. disk[s] # Cut /\ \A t \in disk[s].imports : Good(t) \/ Due(t)
          BY <2>11, <3>4 DEF GoodAggregate
      <4>2. disk[s].imports \subseteq Tables
          BY <3>1, <3>4, <4>1, FileKinds DEF Aggregates
      <4>3. disk'[s] = disk[s]
          BY <2>4, <3>1, <3>4
      <4> QED BY <2>8, <4>1, <4>2, <4>3 DEF GoodAggregate
    <3> QED BY <3>2, <3>3, <3>4
  <2> HIDE DEF f, d
  <2> QED BY <2>1, <2>2, <2>9, <2>10, <2>11 DEF Whole, Schemas, List
<1>22. ASSUME EndRestore PROVE Whole'
  <2>1. /\ UNCHANGED <<disk, app, upset>> /\ sync'.file = sync.file
        /\ sync'.todo = sync.todo
      BY <1>22 DEF EndRestore, TypeInv, Syncs
  <2> QED BY <2>1, WholeKept
<1>23. ASSUME RestoreFails PROVE Whole'
    BY <1>23 DEF RestoreFails, Whole
<1>24. ASSUME TimerFires PROVE Whole'
    BY <1>24, WholeKept DEF TimerFires, history
<1>25. ASSUME StartEngine PROVE Whole'
    BY <1>25, WholeKept DEF StartEngine, history
<1>26. ASSUME StopEngine PROVE Whole'
    BY <1>26, WholeKept DEF StopEngine, history
<1>27. ASSUME Compile PROVE Whole'
    BY <1>27, WholeKept DEF Compile, history
<1> QED
    BY <1>1, <1>2, <1>3, <1>4, <1>5, <1>6, <1>7, <1>8, <1>9, <1>10, <1>11,
       <1>12, <1>13, <1>14, <1>15, <1>16, <1>17, <1>18, <1>19, <1>20,
       <1>21, <1>22, <1>23, <1>24, <1>25, <1>26, <1>27
    DEF Next, UserStep, AppStep, SyncStep, EngineStep
-----------------------------------------------------------------------------
(* The list is the one the user confirmed.                                 *)
LEMMA RecordedKept ==
    ASSUME Recorded, Phase' = Phase, ListOf(disk)' = ListOf(disk), UNCHANGED <<sync, wish>>,
           app'.entries = app.entries, app'.dialog = app.dialog, app'.name = app.name,
           app'.ok = app.ok, upset => upset'
    PROVE  Recorded'
BY DEF Recorded, Target, Holds

\* The list is what its file says.
LEMMA ListKept ==
    ASSUME disk'[List] = disk[List]
    PROVE  ListOf(disk)' = ListOf(disk)
BY DEF ListOf

LEMMA RecordedNext ==
    ASSUME TypeInv, Orderly, Restoring, Recorded, Next
    PROVE  Recorded'
<1>1. ASSUME NEW k \in {"user", "imported"}, NEW saved \in BOOLEAN, Toggle(k, saved)
      PROVE  Recorded'
  <2>1. /\ Phase = "rest" /\ Phase' = "read" /\ UNCHANGED <<disk, sync, wish>>
        /\ upset' = (upset \/ sync.on)
      BY <1>1, ToggleMoves DEF history
  <2>2. ListOf(disk)' = ListOf(disk)
      BY <2>1, ListKept
  <2> QED BY <2>1, <2>2 DEF Recorded, Schemas, List
<1>2. ASSUME NEW c \in Contents, EditWords(c)
      PROVE  Recorded'
  <2>1. /\ Phase = "rest" /\ Phase' = "words" /\ UNCHANGED <<disk, sync, wish>>
        /\ upset' = (upset \/ sync.on)
      BY <1>2, EditMoves DEF history
  <2>2. ListOf(disk)' = ListOf(disk)
      BY <2>1, ListKept
  <2> QED BY <2>1, <2>2 DEF Recorded, Schemas, List
<1>3. ASSUME OpenDialog PROVE Recorded'
  <2>1. /\ Phase = "rest" /\ Phase' = "rest" /\ UNCHANGED <<disk, sync, wish, upset>>
      BY <1>3, DialogMoves DEF history
  <2>2. ListOf(disk)' = ListOf(disk)
      BY <2>1, ListKept
  <2> QED BY <2>1, <2>2 DEF Recorded, Schemas, List, Holds
<1>4. ASSUME Cancel PROVE Recorded'
  <2>1. /\ Phase = "rest" /\ Phase' = "rest" /\ UNCHANGED <<disk, sync, wish, upset>>
      BY <1>4, DialogMoves DEF history
  <2>2. ListOf(disk)' = ListOf(disk)
      BY <2>1, ListKept
  <2> QED BY <2>1, <2>2 DEF Recorded, Schemas, List, Holds
<1>5. ASSUME Done PROVE Recorded'
  <2>1. /\ Phase' \in {"remove", List} /\ ~app'.dialog /\ app'.entries = RowEntries
        /\ wish' = RowEntries /\ sync' = sync /\ upset' = (upset \/ sync.on)
      BY <1>5, DoneMoves
  <2> QED BY <2>1 DEF Recorded, Target, Schemas, List
<1>6. ASSUME ResetDefaultSettings PROVE Recorded'
  <2>1. UNCHANGED <<app, disk, sync, wish, upset>>
      BY <1>6 DEF ResetDefaultSettings, history
  <2>2. Phase' = Phase /\ ListOf(disk)' = ListOf(disk)
      BY <2>1, AppKept, ListKept
  <2> QED BY <2>1, <2>2, RecordedKept
<1>7. ASSUME NEW t \in Tables, NEW state \in {"off", "on", "removed"}, ChangeRow(t, state)
      PROVE  Recorded'
  <2>1. /\ Phase = "rest" /\ Phase' = "rest" /\ UNCHANGED <<disk, sync, wish, upset>>
      BY <1>7, DialogMoves DEF history
  <2>2. ListOf(disk)' = ListOf(disk)
      BY <2>1, ListKept
  <2> QED BY <2>1, <2>2 DEF Recorded, Schemas, List, Holds
<1>8. ASSUME NEW t \in Tables, NEW c \in Contents, ImportManagedDictionary(t, c)
      PROVE  Recorded'
  <2>1. /\ Phase = "rest" /\ Phase' = "import" /\ UNCHANGED <<disk, sync, wish>>
        /\ upset' = (upset \/ sync.on)
      BY <1>8, ImportMoves DEF history
  <2>2. ListOf(disk)' = ListOf(disk)
      BY <2>1, ListKept
  <2> QED BY <2>1, <2>2 DEF Recorded, Schemas, List
<1>9. ASSUME Open PROVE Recorded'
  <2>1. /\ Phase \in Writes /\ Phase' = Phase /\ FileOf(Phase) \in Files
        /\ disk' = [disk EXCEPT ![FileOf(Phase)] = Truncated(FileOf(Phase))]
        /\ UNCHANGED <<sync, wish, upset>>
      BY <1>9, OpenMoves
  <2>2. app'.entries = app.entries /\ app'.dialog = app.dialog /\ app'.name = app.name
        /\ app'.ok = app.ok
    <3>1. app' = [app EXCEPT !.opened = TRUE,
                             !.flags = IF Phase = List THEN switches ELSE app.flags]
        BY <1>9, OpenMoves
    <3> QED BY <3>1 DEF TypeInv, AppOK, Apps
  <2>3. CASE Phase = List
      BY <2>1, <2>2, <2>3, Alone DEF Recorded, Target, Schemas, List
  <2>4. CASE Phase # List
    <3>1. FileOf(Phase) # List
        BY <2>1, <2>4, Targets, FileKinds DEF Writes, TypeInv, AppOK, Apps
    <3>2. ListOf(disk)' = ListOf(disk)
        BY <2>1, <3>1, ListKept
    <3> QED BY <2>1, <2>2, <3>2, RecordedKept
  <2> QED BY <2>3, <2>4
<1>10. ASSUME Fill PROVE Recorded'
  <2>1. /\ Phase \in Writes /\ FileOf(Phase) \in Files
        /\ Phase \in {"import", "words"} => Phase' = "read"
        /\ Phase = List => Phase' = "select"
        /\ Phase = "wanxiang" => Phase' = "wanxiang_pro"
        /\ Phase = "wanxiang_pro" => Phase' = "end"
        /\ disk' = [disk EXCEPT ![FileOf(Phase)] = ValueOf(Phase)]
        /\ UNCHANGED <<sync, wish, upset>>
      BY <1>10, FillMoves DEF history
  <2>2. app'.entries = app.entries /\ app'.dialog = app.dialog /\ app'.name = app.name
        /\ app'.ok = app.ok
    <3>1. app' = [app EXCEPT !.opened = FALSE, !.plan = Tail(app.plan)]
        BY <1>10, FillMoves
    <3> QED BY <3>1 DEF TypeInv, AppOK, Apps
  <2>3. ~upset => ~sync.on
      BY <2>1, Alone DEF Writes, Schemas, List
  <2>4. Target' = Target
      BY <2>1, <2>2 DEF Target
  <2>5. CASE Phase = List
    <3>1. disk'[List] = app.entries
        BY <2>1, <2>5, Targets, FileKinds DEF TypeInv, DiskOK
    <3>2. ListOf(disk)' = app.entries
        BY <3>1, Values DEF ListOf, TypeInv, AppOK, Apps
    <3> QED BY <2>1, <2>3, <2>4, <2>5, <3>2 DEF Recorded, Schemas, List
  <2>6. CASE Phase # List
    <3>1. FileOf(Phase) # List
        BY <2>1, <2>6, Targets, FileKinds DEF Writes, TypeInv, AppOK, Apps
    <3>2. ListOf(disk)' = ListOf(disk)
        BY <2>1, <3>1, ListKept
    <3> QED BY <2>1, <2>3, <2>4, <2>6, <3>2 DEF Recorded, Writes, Schemas, List
  <2> QED BY <2>5, <2>6
<1>11. ASSUME Read PROVE Recorded'
  <2>1. /\ Phase = "read" /\ Phase' = List /\ UNCHANGED <<disk, sync, wish, upset>>
        /\ app'.dialog = app.dialog /\ app'.name = app.name /\ app'.ok = app.ok
        /\ app'.entries = IF app.dialog THEN [ListOf(disk) EXCEPT ![app.name] = "on"]
                          ELSE ListOf(disk)
      BY <1>11, ReadMoves DEF history
  <2>2. ~upset => ~sync.on
      BY <2>1, Alone
  <2>3. app.ok
      BY <2>1 DEF Orderly
  <2>4. ~upset => ListOf(disk) = wish
      BY <2>1, <2>2 DEF Recorded
  <2>5. ~upset => app'.entries = Target'
      BY <2>1, <2>3, <2>4 DEF Target
  <2> QED BY <2>1, <2>2, <2>5 DEF Recorded, Schemas, List
<1>12. ASSUME Select PROVE Recorded'
  <2>1. /\ Phase = "select" /\ Phase' \in {"drop", "wanxiang"}
        /\ UNCHANGED <<disk, sync, wish, upset>>
        /\ app'.dialog = app.dialog /\ app'.name = app.name /\ app'.ok = app.ok
      BY <1>12, SelectMoves DEF history
  <2>2. ~upset => ~sync.on
      BY <2>1, Alone
  <2>3. ListOf(disk)' = ListOf(disk) /\ Target' = Target
      BY <2>1, ListKept DEF Target
  <2> QED BY <2>1, <2>2, <2>3 DEF Recorded, Schemas, List
<1>13. ASSUME End PROVE Recorded'
  <2>1. /\ Phase = "end" /\ Phase' = "rest" /\ UNCHANGED <<disk, sync, upset>>
        /\ wish' = IF app.dialog /\ app.ok THEN [wish EXCEPT ![app.name] = "on"] ELSE wish
      BY <1>13, EndMoves
  <2>2. ~upset => ~sync.on
      BY <2>1, Alone
  <2>3. ListOf(disk)' = ListOf(disk)
      BY <2>1, ListKept
  <2> QED BY <2>1, <2>2, <2>3 DEF Recorded, Target, Schemas, List
<1>14. ASSUME CloseApp PROVE Recorded'
  <2>1. CASE Phase # "rest"
      BY <1>14, <2>1, CloseMoves DEF Recorded
  <2>2. CASE Phase = "rest"
    <3>1. Phase' = "rest" /\ UNCHANGED <<disk, sync, upset, wish>>
        BY <1>14, <2>2, CloseMoves
    <3>2. ListOf(disk)' = ListOf(disk)
        BY <3>1, ListKept
    <3> QED BY <2>2, <3>1, <3>2 DEF Recorded, Schemas, List, Holds
  <2> QED BY <2>1, <2>2
<1>15. ASSUME PostApply PROVE Recorded'
  <2>1. UNCHANGED <<app, disk, sync, wish, upset>>
      BY <1>15 DEF PostApply, history
  <2>2. Phase' = Phase /\ ListOf(disk)' = ListOf(disk)
      BY <2>1, AppKept, ListKept
  <2> QED BY <2>1, <2>2, RecordedKept
<1>16. ASSUME NEW noticed \in BOOLEAN, WriteFails(noticed)
      PROVE  Recorded'
  <2>1. CASE ~(~app.opened /\ Phase \in {"import", "words"})
      BY <1>16, <2>1, FailMoves DEF Recorded
  <2>2. CASE ~app.opened /\ Phase \in {"import", "words"}
    <3>1. /\ UNCHANGED <<disk, sync, wish, upset>>
          /\ Phase = "import" => Phase' = "end" /\ ~app'.ok
          /\ Phase = "words" => Phase' = "read"
        BY <1>16, <2>2, FailMoves
    <3>2. ListOf(disk)' = ListOf(disk)
        BY <3>1, ListKept
    <3>3. ~upset => ~sync.on
        BY <2>2, Alone
    <3> QED BY <2>2, <3>1, <3>2, <3>3 DEF Recorded, Target, Schemas, List
  <2> QED BY <2>1, <2>2
<1>17. ASSUME NEW kept \in SUBSET Schemas, Drop(kept)
      PROVE  Recorded'
  <2>1. /\ Phase = "drop" /\ Phase' = "end" /\ UNCHANGED <<sync, wish>> /\ (upset => upset')
        /\ disk' = [f \in Files |-> IF f \in Schemas \ kept THEN NoFile ELSE disk[f]]
      BY <1>17, DropMoves
  <2>2. app'.entries = app.entries /\ app'.dialog = app.dialog /\ app'.name = app.name
        /\ app'.ok = app.ok
    <3>1. app' = [app EXCEPT !.plan = Tail(app.plan)]
        BY <1>17, DropMoves
    <3> QED BY <3>1 DEF TypeInv, AppOK, Apps
  <2>3. ~upset => ~sync.on
      BY <2>1, Alone
  <2>4. disk'[List] = disk[List]
      BY <2>1, FileKinds
  <2>5. ListOf(disk)' = ListOf(disk) /\ Target' = Target
      BY <2>1, <2>2, <2>4, ListKept DEF Target
  <2> QED BY <2>1, <2>3, <2>5 DEF Recorded, Schemas, List
<1>18. ASSUME NEW t \in Tables, NEW gone \in BOOLEAN, Remove(t, gone)
      PROVE  Recorded'
  <2>1. /\ Phase = "remove" /\ Phase' \in {"remove", List} /\ UNCHANGED <<sync, wish, upset>>
      BY <1>18, RemoveMoves DEF history
  <2>2. app'.entries = app.entries /\ app'.dialog = app.dialog /\ app'.name = app.name
        /\ app'.ok = app.ok
    <3>1. app' = [app EXCEPT !.plan = Tail(app.plan), !.rows[t] = "none"]
        BY <1>18, RemoveMoves
    <3> QED BY <3>1 DEF TypeInv, AppOK, Apps
  <2>3. ~upset => ~sync.on
      BY <2>1, Alone
  <2>4. Target' = Target
      BY <2>1, <2>2 DEF Target
  <2> QED BY <2>1, <2>2, <2>3, <2>4 DEF Recorded, Schemas, List
<1>19. ASSUME NEW o \in Others, BeginRestore(o)
      PROVE  Recorded'
  <2> SUFFICES ASSUME ~upset' PROVE Recorded'
      BY DEF Recorded
  <2>1. /\ ~upset /\ app.plan = <<>> /\ UNCHANGED <<disk, app, wish>> /\ ~sync.on /\ sync'.on
      BY <1>19 DEF BeginRestore
  <2>2. Phase = "rest" /\ Phase' = "rest"
      BY <2>1, Stepping, AppKept DEF TypeInv
  <2>3. ListOf(disk)' = ListOf(disk)
      BY <2>1, ListKept
  <2> QED BY <2>1, <2>2, <2>3 DEF Recorded, Schemas, List
<1>20. ASSUME NEW f \in Files, OpenRestored(f)
      PROVE  Recorded'
  <2> SUFFICES ASSUME ~upset PROVE Recorded'
      BY <1>20 DEF OpenRestored, Recorded
  <2>1. /\ sync.on /\ f \in sync.todo /\ UNCHANGED <<app, upset, wish>>
        /\ disk' = [disk EXCEPT ![f] = Truncated(f)]
        /\ sync'.on /\ sync'.other = sync.other
      BY <1>20 DEF OpenRestored, TypeInv, Syncs
  <2>2. Phase = "rest" /\ Phase' = "rest"
      BY <2>1, AppKept DEF Orderly
  <2>3. List \notin Holds(sync.other) => disk'[List] = disk[List]
      BY <2>1 DEF Restoring
  <2>4. List \notin Holds(sync.other) => ListOf(disk)' = ListOf(disk)
      BY <2>3, ListKept
  <2> QED BY <2>1, <2>2, <2>4 DEF Recorded, Schemas, List, Holds
<1>21. ASSUME FillRestored PROVE Recorded'
  <2> SUFFICES ASSUME ~upset PROVE Recorded'
      BY <1>21 DEF FillRestored, Recorded
  <2>1. /\ sync.on /\ sync.file # NoFile /\ UNCHANGED <<app, upset, wish>>
        /\ disk' = [disk EXCEPT ![sync.file] = sync.other.disk[sync.file]]
        /\ sync'.on /\ sync'.other = sync.other
      BY <1>21 DEF FillRestored, TypeInv, Syncs
  <2>2. Phase = "rest" /\ Phase' = "rest"
      BY <2>1, AppKept DEF Orderly
  <2>3. List \notin Holds(sync.other) => disk'[List] = disk[List]
      BY <2>1 DEF Restoring
  <2>4. List \notin Holds(sync.other) => ListOf(disk)' = ListOf(disk)
      BY <2>3, ListKept
  <2> QED BY <2>1, <2>2, <2>4 DEF Recorded, Schemas, List, Holds
<1>22. ASSUME EndRestore PROVE Recorded'
  <2> SUFFICES ASSUME ~upset PROVE Recorded'
      BY <1>22 DEF EndRestore, Recorded
  <2>1. /\ sync.on /\ sync.file = NoFile /\ sync.todo = {} /\ UNCHANGED <<disk, app, upset>>
        /\ ~sync'.on
        /\ wish' = IF sync.other.disk[List] = NoFile THEN wish ELSE sync.other.disk[List]
      BY <1>22 DEF EndRestore, TypeInv, Syncs
  <2>2. Phase = "rest" /\ Phase' = "rest"
      BY <2>1, AppKept DEF Orderly
  <2>3. ListOf(disk)' = ListOf(disk)
      BY <2>1, ListKept
  <2>4. CASE List \in Holds(sync.other)
    <3>1. disk[List] = sync.other.disk[List] /\ sync.other.disk[List] # NoFile
        BY <2>1, <2>4, NotFile, FileKinds DEF Restoring, Holds
    <3> QED BY <2>1, <2>2, <2>3, <3>1 DEF Recorded, ListOf, Schemas, List
  <2>5. CASE List \notin Holds(sync.other)
    <3>1. sync.other.disk[List] = NoFile
        BY <2>5, FileKinds DEF Holds
    <3> QED BY <2>1, <2>2, <2>3, <2>5, <3>1 DEF Recorded, Schemas, List
  <2> QED BY <2>4, <2>5
<1>23. ASSUME RestoreFails PROVE Recorded'
    BY <1>23 DEF RestoreFails, Recorded
<1>24. ASSUME TimerFires PROVE Recorded'
  <2>1. UNCHANGED <<app, disk, sync, wish, upset>>
      BY <1>24 DEF TimerFires, history
  <2>2. Phase' = Phase /\ ListOf(disk)' = ListOf(disk)
      BY <2>1, AppKept, ListKept
  <2> QED BY <2>1, <2>2, RecordedKept
<1>25. ASSUME StartEngine PROVE Recorded'
  <2>1. UNCHANGED <<app, disk, sync, wish, upset>>
      BY <1>25 DEF StartEngine, history
  <2>2. Phase' = Phase /\ ListOf(disk)' = ListOf(disk)
      BY <2>1, AppKept, ListKept
  <2> QED BY <2>1, <2>2, RecordedKept
<1>26. ASSUME StopEngine PROVE Recorded'
  <2>1. UNCHANGED <<app, disk, sync, wish, upset>>
      BY <1>26 DEF StopEngine, history
  <2>2. Phase' = Phase /\ ListOf(disk)' = ListOf(disk)
      BY <2>1, AppKept, ListKept
  <2> QED BY <2>1, <2>2, RecordedKept
<1>27. ASSUME Compile PROVE Recorded'
  <2>1. UNCHANGED <<app, disk, sync, wish, upset>>
      BY <1>27 DEF Compile, history
  <2>2. Phase' = Phase /\ ListOf(disk)' = ListOf(disk)
      BY <2>1, AppKept, ListKept
  <2> QED BY <2>1, <2>2, RecordedKept
<1> QED
    BY <1>1, <1>2, <1>3, <1>4, <1>5, <1>6, <1>7, <1>8, <1>9, <1>10, <1>11,
       <1>12, <1>13, <1>14, <1>15, <1>16, <1>17, <1>18, <1>19, <1>20,
       <1>21, <1>22, <1>23, <1>24, <1>25, <1>26, <1>27
    DEF Next, UserStep, AppStep, SyncStep, EngineStep
-----------------------------------------------------------------------------
(* The engine serves what the files say.                                   *)
LEMMA ServingKept ==
    ASSUME Serving, UNCHANGED <<disk, switches>>, engine'.of = engine.of,
           engine'.built = engine.built, engine'.busy = engine.busy,
           ~Pending' => ~Pending
    PROVE  Serving'
<1>1. Wanted' = Wanted /\ Chosen' = Chosen
    BY DEF Wanted, Chosen
<1>2. InForce' = InForce
    BY <1>1 DEF InForce
<1> QED BY <1>1, <1>2 DEF Serving

(* A deployment under way is one for the settings as they are.             *)
LEMMA ServingDeploys ==
    ASSUME TypeInv, UNCHANGED <<disk, switches>>, engine' = Deploy
    PROVE  Serving'
<1>1. engine'.busy /\ engine'.of = Chosen
    BY DEF Deploy, TypeInv, Engines
<1>2. Chosen' = Chosen
    BY DEF Chosen
<1> QED BY <1>1, <1>2 DEF Serving

(* What Rime builds when the files are in order.                           *)
LEMMA CompileRight ==
    ASSUME TypeInv, \A s \in Schemas : disk[s] = Aggregate(Wanted),
           disk[Scheme] # NoFile => \A t \in disk[Scheme].imports : Good(t)
    PROVE  Compiled(Chosen.use) = [t \in Wanted |-> disk[t]]
<1>1. disk[Scheme] = Aggregate(Wanted)
    BY LexiconAssumption
<1>2. Wanted \subseteq Tables
    BY DEF Wanted, WantedOf, EnabledTables
<1>3. ~switches.user /\ ~switches.imported => Wanted = {}
    BY DEF Wanted, WantedOf, EnabledTables
<1>4. Chosen.use = ((switches.user \/ switches.imported) /\ disk[Scheme] # NoFile)
    BY DEF Chosen
<1>5. Chosen.use \in BOOLEAN
    BY ChosenTyped DEF TypeInv, RestOK
<1> DEFINE wanted == Wanted
           use == Chosen.use
<1>6. Wanted # {} => /\ disk[Scheme] = [imports |-> Wanted] /\ [imports |-> Wanted] \in Aggregates
                     /\ disk[Scheme].imports = Wanted
    BY <1>1, <1>2 DEF Aggregate, Aggregates
<1>7. CASE Wanted = {}
  <2>1. disk[Scheme] = NoFile
      BY <1>1, <1>7 DEF Aggregate
  <2>2. ~Chosen.use
      BY <1>4, <2>1
  <2>3. Compiled(Chosen.use) = [t \in {} |-> Blank]
      BY <2>2 DEF Compiled
  <2>4. [t \in Wanted |-> disk[t]] = [t \in {} |-> Blank]
    <3> HIDE DEF wanted
    <3>1. wanted = {}
        BY <1>7 DEF wanted
    <3>2. [t \in wanted |-> disk[t]] = [t \in {} |-> Blank]
        BY <3>1
    <3> QED BY <3>2 DEF wanted
  <2> QED BY <2>3, <2>4
<1>8. CASE Wanted # {}
  <2>1. disk[Scheme] # NoFile /\ disk[Scheme] # Cut
      BY <1>6, <1>8, Values
  <2>2. Chosen.use
      BY <1>3, <1>4, <1>8, <2>1
  <2>3. CanCompile
      BY <2>1 DEF CanCompile, Good
  <2>4. Compiled(Chosen.use) = [t \in disk[Scheme].imports |-> disk[t]]
      BY <2>2, <2>3 DEF Compiled
  <2> QED BY <1>6, <1>8, <2>4
<1> QED BY <1>7, <1>8

(* When nothing of importance is under way no file is being written.       *)
LEMMA NothingDue ==
    ASSUME TypeInv, Restoring, ~sync.on, Quietly
    PROVE  Unchanged /\ sync.file = NoFile /\ \A t \in Tables : ~Due(t)
<1>1. ~app.opened /\ Unchanged
    BY Closed DEF Quietly, Unchanged, Writes, Schemas, List
<1>2. sync.file = NoFile /\ sync.todo = {} /\ Writing = NoFile
    BY <1>1 DEF Restoring, Writing
<1> QED BY <1>1, <1>2, NotFile, FileKinds DEF Due

\* So the aggregates are in order, and can be compiled.
LEMMA FilesInOrder ==
    ASSUME TypeInv, Restoring, Aggregating, Whole, ~sync.on, ~upset, off = {}, Quietly
    PROVE  /\ \A s \in Schemas : disk[s] = Aggregate(Wanted)
           /\ disk[Scheme] # NoFile => \A t \in disk[Scheme].imports : Good(t)
<1>1. Unchanged /\ sync.file = NoFile /\ \A t \in Tables : ~Due(t)
    BY NothingDue
<1>2. \A s \in Schemas : disk[s] = Aggregate(Wanted)
    BY <1>1 DEF Aggregating
<1>3. Scheme \in Schemas /\ Scheme \in Files /\ Scheme # NoFile /\ disk[Scheme] \in States(Scheme)
    BY LexiconAssumption, FileKinds DEF TypeInv, DiskOK
<1>4. GoodAggregate(Scheme)
    BY <1>3 DEF Whole, Quietly
<1>5. ASSUME disk[Scheme] # NoFile PROVE \A t \in disk[Scheme].imports : Good(t)
  <2>1. disk[Scheme] # Cut /\ \A t \in disk[Scheme].imports : Good(t) \/ Due(t)
      BY <1>1, <1>3, <1>4, <1>5 DEF GoodAggregate
  <2>2. disk[Scheme].imports \subseteq Tables
      BY <1>3, <1>5, <2>1, FileKinds DEF Aggregates
  <2> QED BY <1>1, <2>1, <2>2
<1> QED BY <1>2, <1>5

LEMMA ServingNext ==
    ASSUME TypeInv, Orderly, Restoring, Aggregating, Whole, Serving, Next
    PROVE  Serving'
<1>1. ASSUME NEW k \in {"user", "imported"}, NEW saved \in BOOLEAN, Toggle(k, saved)
      PROVE  Serving'
  <2>1. Phase' \in {"read"}
      BY <1>1, ToggleMoves
  <2> QED BY <2>1 DEF Serving, Pending, Quietly, Schemas, List
<1>2. ASSUME NEW c \in Contents, EditWords(c)
      PROVE  Serving'
  <2>1. Phase' \in {"words"}
      BY <1>2, EditMoves
  <2> QED BY <2>1 DEF Serving, Pending, Quietly, Schemas, List
<1>3. ASSUME OpenDialog PROVE Serving'
  <2>1. UNCHANGED <<disk, switches, engine>>
      BY <1>3, DialogMoves
  <2>2. ~Pending' => ~Pending
      BY <1>3, DialogMoves DEF Pending, Quietly, Orderly, Schemas, List, history
  <2> QED BY <2>1, <2>2, ServingKept
<1>4. ASSUME Cancel PROVE Serving'
  <2>1. UNCHANGED <<disk, switches, engine>>
      BY <1>4, DialogMoves
  <2>2. ~Pending' => ~Pending
      BY <1>4, DialogMoves DEF Pending, Quietly, Orderly, Schemas, List, history
  <2> QED BY <2>1, <2>2, ServingKept
<1>5. ASSUME Done PROVE Serving'
  <2>1. Phase' \in {"remove", List}
      BY <1>5, DoneMoves
  <2> QED BY <2>1 DEF Serving, Pending, Quietly, Schemas, List
<1>6. ASSUME ResetDefaultSettings PROVE Serving'
    BY <1>6 DEF ResetDefaultSettings, Serving, Pending
<1>7. ASSUME NEW t \in Tables, NEW state \in {"off", "on", "removed"}, ChangeRow(t, state)
      PROVE  Serving'
  <2>1. UNCHANGED <<disk, switches, engine>>
      BY <1>7, DialogMoves
  <2>2. ~Pending' => ~Pending
      BY <1>7, DialogMoves DEF Pending, Quietly, Orderly, Schemas, List, history
  <2> QED BY <2>1, <2>2, ServingKept
<1>8. ASSUME NEW t \in Tables, NEW c \in Contents, ImportManagedDictionary(t, c)
      PROVE  Serving'
  <2>1. UNCHANGED <<disk, switches, engine>>
      BY <1>8, ImportMoves
  <2>2. ~Pending' => ~Pending
      BY <1>8, ImportMoves DEF Pending, Quietly, Orderly, Schemas, List, history
  <2> QED BY <2>1, <2>2, ServingKept
<1>9. ASSUME Open PROVE Serving'
  <2>1. Phase' \in Writes /\ app'.opened
      BY <1>9, OpenMoves
  <2> QED BY <2>1 DEF Serving, Pending, Quietly, Writes, Schemas, List
<1>10. ASSUME Fill PROVE Serving'
  <2>1. Phase' \in {"read", "select", "wanxiang_pro", "end"} /\ Phase \in Writes
      BY <1>10, FillMoves DEF Writes, Schemas
  <2>2. app'.ok = app.ok
    <3>1. app' = [app EXCEPT !.opened = FALSE, !.plan = Tail(app.plan)]
        BY <1>10, FillMoves
    <3> QED BY <3>1 DEF TypeInv, AppOK, Apps
  <2>3. app.ok
      BY <2>1 DEF Orderly, Writes, Schemas, List
  <2> QED BY <2>1, <2>2, <2>3 DEF Serving, Pending, Quietly
<1>11. ASSUME Read PROVE Serving'
  <2>1. Phase' \in {List}
      BY <1>11, ReadMoves
  <2> QED BY <2>1 DEF Serving, Pending, Quietly, Schemas, List
<1>12. ASSUME Select PROVE Serving'
  <2>1. Phase' \in {"drop", "wanxiang"}
      BY <1>12, SelectMoves
  <2> QED BY <2>1 DEF Serving, Pending, Quietly, Schemas, List
<1>13. ASSUME End PROVE Serving'
  <2>1. UNCHANGED <<disk, switches, engine>>
      BY <1>13, EndMoves
  <2>2. ~Pending' => ~Pending
      BY <1>13, EndMoves DEF Pending, Quietly, Orderly, Schemas, List, history
  <2> QED BY <2>1, <2>2, ServingKept
<1>14. ASSUME CloseApp PROVE Serving'
    BY <1>14, CloseMoves DEF Serving, Pending
<1>15. ASSUME PostApply PROVE Serving'
  <2>1. engine'.timer = engine.hears /\ lost' = (lost \/ ~engine.hears)
      BY <1>15 DEF PostApply, TypeInv, Engines
  <2> QED BY <2>1 DEF Serving, Pending
<1>16. ASSUME NEW noticed \in BOOLEAN, WriteFails(noticed)
      PROVE  Serving'
  <2>1. UNCHANGED <<disk, switches, engine>>
      BY <1>16, FailMoves
  <2>2. ~Pending' => ~Pending
      BY <1>16, FailMoves DEF Pending, Quietly, Orderly, Schemas, List, history
  <2> QED BY <2>1, <2>2, ServingKept
<1>17. ASSUME NEW kept \in SUBSET Schemas, Drop(kept)
      PROVE  Serving'
  <2>1. Phase = "drop" /\ Phase' = "end"
      BY <1>17, DropMoves
  <2>2. app'.ok = app.ok
    <3>1. app' = [app EXCEPT !.plan = Tail(app.plan)]
        BY <1>17, DropMoves
    <3> QED BY <3>1 DEF TypeInv, AppOK, Apps
  <2>3. app.ok
      BY <2>1 DEF Orderly
  <2> QED BY <2>1, <2>2, <2>3 DEF Serving, Pending, Quietly
<1>18. ASSUME NEW t \in Tables, NEW gone \in BOOLEAN, Remove(t, gone)
      PROVE  Serving'
  <2>1. Phase' \in {"remove", List}
      BY <1>18, RemoveMoves
  <2> QED BY <2>1 DEF Serving, Pending, Quietly, Schemas, List
<1>19. ASSUME NEW o \in Others, BeginRestore(o)
      PROVE  Serving'
  <2>1. sync'.on
      BY <1>19 DEF BeginRestore
  <2> QED BY <2>1 DEF Serving, Pending
<1>20. ASSUME NEW f \in Files, OpenRestored(f)
      PROVE  Serving'
  <2>1. sync'.on
      BY <1>20 DEF OpenRestored, TypeInv, Syncs
  <2> QED BY <2>1 DEF Serving, Pending
<1>21. ASSUME FillRestored PROVE Serving'
  <2>1. sync'.on
      BY <1>21 DEF FillRestored, TypeInv, Syncs
  <2> QED BY <2>1 DEF Serving, Pending
<1>22. ASSUME EndRestore PROVE Serving'
  <2>1. engine'.timer = engine.hears /\ lost' = (lost \/ ~engine.hears)
      BY <1>22 DEF EndRestore, TypeInv, Engines
  <2> QED BY <2>1 DEF Serving, Pending
<1>23. ASSUME RestoreFails PROVE Serving'
    BY <1>23 DEF RestoreFails, Serving, Pending
<1>24. ASSUME TimerFires PROVE Serving'
  <2>1. CASE engine.busy
      BY <1>24, <2>1 DEF TimerFires, Serving, Pending
  <2>2. CASE ~engine.busy
      BY <1>24, <2>2, ServingDeploys DEF TimerFires
  <2> QED BY <2>1, <2>2
<1>25. ASSUME StartEngine PROVE Serving'
  <2>1. CASE engine.built # NoFile /\ engine.of = Chosen
    <3>1. engine' = [engine EXCEPT !.hears = TRUE] /\ lost' = lost
          /\ UNCHANGED <<disk, switches, app, owed, sync, off, upset>>
        BY <1>25, <2>1 DEF StartEngine
    <3>2. engine'.of = engine.of /\ engine'.built = engine.built /\ engine'.busy = engine.busy
          /\ engine'.timer = engine.timer
        BY <3>1 DEF TypeInv, Engines
    <3>3. ~Pending' => ~Pending
        BY <3>1, <3>2, AppKept DEF Pending, Quietly
    <3> QED BY <3>1, <3>2, <3>3, ServingKept
  <2>2. CASE ~(engine.built # NoFile /\ engine.of = Chosen)
    <3>1. engine' = Deploy /\ UNCHANGED <<disk, switches>>
        BY <1>25, <2>2 DEF StartEngine
    <3> QED BY <3>1, ServingDeploys
  <2> QED BY <2>1, <2>2
<1>26. ASSUME StopEngine PROVE Serving'
  <2>1. engine' = [engine EXCEPT !.hears = FALSE, !.timer = FALSE]
        /\ lost' = (lost \/ engine.timer)
        /\ UNCHANGED <<disk, switches, app, owed, sync, off, upset>>
      BY <1>26 DEF StopEngine
  <2>2. engine'.of = engine.of /\ engine'.built = engine.built /\ engine'.busy = engine.busy
      BY <2>1 DEF TypeInv, Engines
  <2>3. ~Pending' => ~Pending
      BY <2>1, AppKept DEF Pending, Quietly
  <2> QED BY <2>1, <2>2, <2>3, ServingKept
<1>27. ASSUME Compile PROVE Serving'
  <2> SUFFICES ASSUME ~Pending' PROVE ~engine'.busy /\ InForce'
      BY DEF Serving
  <2>1. /\ engine.busy /\ engine' = [engine EXCEPT !.busy = FALSE,
                                       !.built = Compiled(engine.of.use)]
        /\ UNCHANGED <<disk, switches, app, owed, sync, off, lost, upset>>
      BY <1>27 DEF Compile, history
  <2>2. ~engine'.busy /\ engine'.built = Compiled(engine.of.use) /\ engine'.timer = engine.timer
      BY <2>1 DEF TypeInv, Engines
  <2>3. ~Pending
      BY <2>1, <2>2, AppKept DEF Pending, Quietly
  <2>4. engine.of = Chosen
      BY <2>1, <2>3 DEF Serving
  <2>5. ~sync.on /\ ~upset /\ off = {} /\ Quietly
      BY <2>3 DEF Pending
  <2>6. engine'.built = [t \in Wanted |-> disk[t]]
      BY <2>2, <2>4, <2>5, FilesInOrder, CompileRight
  <2>7. Wanted' = Wanted
      BY <2>1 DEF Wanted
  <2> QED BY <2>1, <2>2, <2>6, <2>7 DEF InForce
<1> QED
    BY <1>1, <1>2, <1>3, <1>4, <1>5, <1>6, <1>7, <1>8, <1>9, <1>10, <1>11,
       <1>12, <1>13, <1>14, <1>15, <1>16, <1>17, <1>18, <1>19, <1>20,
       <1>21, <1>22, <1>23, <1>24, <1>25, <1>26, <1>27
    DEF Next, UserStep, AppStep, SyncStep, EngineStep
-----------------------------------------------------------------------------
(* All of it together.                                                     *)

\* A device at rest has all its files in order.
LEMMA Starts ==
    ASSUME Init
    PROVE  Inv
<1>1. PICK x \in Others : disk = x.disk /\ switches = x.switches
    BY DEF Init
<1>2. /\ switches \in Switches /\ DOMAIN disk = Files /\ InOrder(disk, switches)
      /\ \A f \in Files : disk[f] \in States(f) \ {Cut}
    BY <1>1, LexiconAssumption
<1>3. /\ app = Idle /\ app.plan = <<>> /\ ~app.opened /\ ~app.dialog /\ app.ok
      /\ app.rows = NoEntries /\ Phase = "rest"
    BY DEF Init, Idle, Phase, PhaseOf
<1>4. TypeInv
  <2>1. DiskOK
      BY <1>2 DEF DiskOK
  <2>2. AppOK
      BY <1>3, Values, NewPlans DEF AppOK
  <2>3. sync \in Syncs
      BY DEF Init, Syncs
  <2>5. Chosen \in [switches : Switches, use : BOOLEAN]
      BY <1>2, ChosenTyped
  <2>6. Chosen.use \in BOOLEAN
      BY <2>5
  <2>7. Compiled(Chosen.use) \in {NoFile} \cup Built
      BY <2>1, <2>6, CompiledTyped
  <2>8. engine \in Engines
      BY <2>5, <2>7 DEF Init, Engines
  <2>9. ListOf(disk) \in Entries
      BY <2>1, FileKinds, ListTyped DEF DiskOK
  <2>10. RestOK
      BY <1>2, <2>9 DEF RestOK, Init
  <2> QED BY <2>1, <2>2, <2>3, <2>8, <2>10 DEF TypeInv
<1>5. Orderly
    BY <1>3 DEF Init, Orderly, Schemas
<1>6. Restoring
    BY DEF Init, Restoring
<1>7. \A s \in Schemas : disk[s] = Aggregate(Wanted)
    BY <1>2 DEF InOrder, Wanted
<1>8. Aggregating
    BY <1>3, <1>7 DEF Aggregating, Schemas, List
<1>9. \A t \in Tables : disk[t] # NoFile => Good(t)
    BY <1>1, OtherTable DEF Good
<1>10. ListedGood
    BY <1>2, <1>9 DEF ListedGood, InOrder
<1>11. ASSUME NEW s \in Schemas, disk[s] # NoFile
       PROVE  disk[s] # Cut /\ \A t \in disk[s].imports : Good(t)
    BY <1>1, <1>9, <1>11, OtherAggregate
<1>12. Whole
  <2>1. \A s \in Schemas : GoodAggregate(s)
      BY <1>11 DEF GoodAggregate
  <2>2. RowsGood
      BY <1>3 DEF RowsGood, NoEntries
  <2> QED BY <1>3, <1>10, <2>1, <2>2 DEF Whole, Schemas, List
<1>13. Recorded
    BY <1>3 DEF Init, Recorded, Schemas, List
<1>14. Serving
  <2>1. ~engine.busy /\ engine.built = Compiled(Chosen.use)
      BY DEF Init
  <2>2. disk[Scheme] # NoFile => \A t \in disk[Scheme].imports : Good(t)
      BY <1>11, LexiconAssumption
  <2>3. InForce
      BY <1>4, <1>7, <2>1, <2>2, CompileRight DEF InForce
  <2> QED BY <2>1, <2>3 DEF Serving
<1> QED BY <1>4, <1>5, <1>6, <1>8, <1>12, <1>13, <1>14 DEF Inv

\* Nothing happens.
LEMMA Stays ==
    ASSUME Inv, UNCHANGED vars
    PROVE  Inv'
<1>1. UNCHANGED <<disk, switches, app, owed, sync, engine, wish, off, lost, upset>>
    BY DEF vars, history
<1>2. Phase' = Phase /\ ListOf(disk)' = ListOf(disk)
    BY <1>1, AppKept, ListKept
<1>3. TypeInv'
    BY TypeNext DEF Inv
<1>4. Orderly'
    BY <1>1, <1>2 DEF Inv, Orderly, Removed
<1>5. Restoring'
    BY <1>1, RestoringKept DEF Inv
<1>6. Aggregating'
    BY <1>1, AggregatingKept DEF Inv
<1>7. Whole'
    BY <1>1, WholeKept DEF Inv
<1>8. Recorded'
    BY <1>1, <1>2, RecordedKept DEF Inv
<1>9. Serving'
  <2>1. ~Pending' => ~Pending
      BY <1>1, <1>2 DEF Pending, Quietly
  <2> QED BY <1>1, <2>1, ServingKept DEF Inv
<1> QED BY <1>3, <1>4, <1>5, <1>6, <1>7, <1>8, <1>9 DEF Inv

(* Every part of Inv holds in every state.                                 *)
THEOREM InvCorrect == Spec => []Inv
<1>1. ASSUME Inv, Next PROVE Inv'
  <2> USE DEF Inv
  <2>1. TypeInv'
      BY <1>1, TypeNext
  <2>2. Orderly'
      BY <1>1, OrderlyNext
  <2>3. Restoring'
      BY <1>1, RestoringNext
  <2>4. Aggregating'
      BY <1>1, AggregatingNext
  <2>5. Whole'
      BY <1>1, WholeNext
  <2>6. Recorded'
      BY <1>1, RecordedNext
  <2>7. Serving'
      BY <1>1, ServingNext
  <2> QED BY <2>1, <2>2, <2>3, <2>4, <2>5, <2>6, <2>7
<1>2. Inv /\ [Next]_vars => Inv'
    BY <1>1, Stays
<1> QED BY <1>2, Starts, PTL DEF Spec

-----------------------------------------------------------------------------
(* Every part of the state keeps its type, and a file is only open in a    *)
(* step that writes one.                                                   *)
THEOREM TypeCorrect == Spec => []TypeOK
<1>1. Inv => TypeOK
    BY TypeImplied DEF Inv
<1> QED BY <1>1, InvCorrect, PTL

\* When no operation and no restore is under way.
LEMMA Resting ==
    ASSUME Inv, AtRest
    PROVE  /\ Phase = "rest" /\ Quietly /\ Unchanged /\ sync.file = NoFile
           /\ \A t \in Tables : ~Due(t)
<1>1. Phase = "rest"
    BY Stepping DEF Inv, TypeInv, AtRest
<1> QED BY <1>1, NothingDue DEF Inv, AtRest, Quietly

(* Both aggregates import exactly what the switches, the list and the      *)
(* user's words say (lexicon_store.cpp:328-374).                           *)
THEOREM AggregatesCurrentCorrect == Spec => []AggregatesCurrent
<1>1. Inv => AggregatesCurrent
    BY Resting DEF Inv, Aggregating, AggregatesCurrent
<1> QED BY <1>1, InvCorrect, PTL

(* Every dictionary that the list or an aggregate names is there and whole *)
(* (lexicon_dialogs.cpp:272-286, lexicon_store.cpp:432-439).               *)
THEOREM DeployableCorrect == Spec => []Deployable
<1>1. ASSUME Inv, AtRest, ~upset, NEW t \in Tables, ListOf(disk)[t] # "none"
      PROVE  disk[t] \in Contents
    BY <1>1, Resting DEF Inv, Whole, ListedGood, Good, List
<1>2. ASSUME Inv, AtRest, ~upset, NEW s \in Schemas, disk[s] # NoFile
      PROVE  disk[s] # Cut /\ \A t \in disk[s].imports : disk[t] \in Contents
  <2>1. GoodAggregate(s)
      BY <1>2, Resting DEF Inv, Whole
  <2>2. s \in Files /\ s # NoFile /\ disk[s] \in States(s)
      BY <1>2, FileKinds, NotFile DEF Inv, TypeInv, DiskOK
  <2>3. disk[s] # Cut /\ \A t \in disk[s].imports : Good(t) \/ Due(t)
      BY <1>2, <2>1, <2>2, Resting DEF GoodAggregate
  <2>4. disk[s].imports \subseteq Tables
      BY <1>2, <2>2, <2>3, FileKinds DEF Aggregates
  <2> QED BY <1>2, <2>3, <2>4, Resting DEF Good
<1>3. Inv => Deployable
    BY <1>1, <1>2 DEF Deployable
<1> QED BY <1>3, InvCorrect, PTL

(* The list is the one the user confirmed (lexicon_store.cpp:413-420).     *)
THEOREM EntriesKeptCorrect == Spec => []EntriesKept
<1>1. Inv => EntriesKept
    BY Resting DEF Inv, Recorded, EntriesKept, AtRest
<1> QED BY <1>1, InvCorrect, PTL

(* The engine has built the tables that are switched on as they are now,   *)
(* when no message is on its way (rime_engine.cpp:1546-1563).              *)
THEOREM LexiconsInForceCorrect == Spec => []LexiconsInForce
<1>1. Inv => LexiconsInForce
    BY Resting DEF Inv, Serving, Pending, LexiconsInForce, Told, AtRest
<1> QED BY <1>1, InvCorrect, PTL
=============================================================================
