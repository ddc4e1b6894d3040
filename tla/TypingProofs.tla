---------------------------- MODULE TypingProofs ----------------------------
(***************************************************************************)
(* Proofs about the keys the user types.                                   *)
(*                                                                         *)
(* First of TextService, what becomes of the letters, for every set of     *)
(* contexts and every number of letters, failures and engines.  The        *)
(* invariant IInv has four parts.  TypeInv: the state is Sound.  ShownInv: *)
(* as long as nothing failed, what is composed is the input (Good).        *)
(* Measured: what preedit_length_ makes RequestTextReplacement delete is   *)
(* never more than the preedit, whatever has been refused.  OrderInv: as   *)
(* long as nothing failed and no mode key strayed, the texts are letters   *)
(* in the order typed (Ordered).  Every action but two keeps them for one  *)
(* reason: it removes no text but the preedit and adds none (Harmless).  A *)
(* letter adds the greatest number so far at the end of one text           *)
(* (TypedIn).  A mode key from another field than the input's may delete   *)
(* there and add letters twice; all the same it leaves preedit_length_     *)
(* right (Astray), and so the steps after it remove no text again.         *)
(*                                                                         *)
(* At the end of Shortcuts, for every set of settings, keys and fallbacks: *)
(* its types, that a modifier switches the mode only alone, that labels    *)
(* are honest, that conflicts are told, and that what is recorded is       *)
(* recognised.  The last two rest on the tables: what a recorder spells    *)
(* is parsed back (ParsesBack), so that two texts of recorders with one    *)
(* chord are one text (SameChordSameText).                                 *)
(***************************************************************************)
EXTENDS TextService, Shortcuts, FiniteSetTheorems, SequenceTheorems, TLAPS

-----------------------------------------------------------------------------
(* Prefixes.                                                               *)

\* A prefix, letter by letter.
LEMMA PrefixByLetter ==
    ASSUME NEW S, NEW s \in Seq(S), NEW t \in Seq(S)
    PROVE  IsPrefix(s, t) <=> Len(s) <= Len(t) /\ \A i \in 1 .. Len(s) : s[i] = t[i]
<1>1. Len(s) \in Nat /\ Len(t) \in Nat
    BY LenProperties
<1>2. SUFFICES ASSUME Len(s) <= Len(t)
               PROVE  s = SubSeq(t, 1, Len(s)) <=> \A i \in 1 .. Len(s) : s[i] = t[i]
    BY DEF IsPrefix
<1> DEFINE u == SubSeq(t, 1, Len(s))
<1>3. \A i \in 1 .. Len(s) : t[i] \in S
    BY <1>1, <1>2, ElementOfSeq
<1>4. u \in Seq(S) /\ Len(u) = Len(s) /\ \A i \in 1 .. Len(s) : u[i] = t[i]
  <2>1. /\ u \in Seq(S)
        /\ Len(u) = IF 1 <= Len(s) THEN Len(s) - 1 + 1 ELSE 0
        /\ \A i \in 1 .. Len(s) - 1 + 1 : u[i] = t[1 + i - 1]
      BY <1>1, <1>3, SubSeqProperties, 1 \in Int, Len(s) \in Int
  <2> HIDE DEF u
  <2> QED BY <2>1, <1>1
<1> HIDE DEF u
<1>5. ASSUME s = u
      PROVE  \A i \in 1 .. Len(s) : s[i] = t[i]
    BY <1>4, <1>5
<1>6. ASSUME \A i \in 1 .. Len(s) : s[i] = t[i]
      PROVE  s = u
    BY <1>4, <1>6, SeqEqual
<1> QED BY <1>5, <1>6 DEF u

LEMMA PrefixOfItself ==
    ASSUME NEW S, NEW s \in Seq(S)
    PROVE  IsPrefix(s, s)
<1>1. Len(s) \in Nat
    BY LenProperties
<1> QED BY <1>1, PrefixByLetter

LEMMA PrefixOfPrefix ==
    ASSUME NEW S, NEW s \in Seq(S), NEW t \in Seq(S), NEW u \in Seq(S),
           IsPrefix(s, t), IsPrefix(t, u)
    PROVE  IsPrefix(s, u)
<1>1. Len(s) \in Nat /\ Len(t) \in Nat /\ Len(u) \in Nat
    BY LenProperties
<1>2. Len(s) <= Len(t) /\ \A i \in 1 .. Len(s) : s[i] = t[i]
    BY PrefixByLetter
<1>3. Len(t) <= Len(u) /\ \A i \in 1 .. Len(t) : t[i] = u[i]
    BY PrefixByLetter
<1>4. Len(s) <= Len(u) /\ \A i \in 1 .. Len(s) : s[i] = u[i]
    BY <1>1, <1>2, <1>3
<1> QED BY <1>4, PrefixByLetter

LEMMA PrefixOfLonger ==
    ASSUME NEW S, NEW s \in Seq(S), NEW t \in Seq(S)
    PROVE  s \o t \in Seq(S) /\ Len(s \o t) = Len(s) + Len(t) /\ IsPrefix(s, s \o t)
<1>1. Len(s) \in Nat /\ Len(t) \in Nat
    BY LenProperties
<1>2. /\ s \o t \in Seq(S) /\ Len(s \o t) = Len(s) + Len(t)
      /\ \A i \in 1 .. Len(s) + Len(t) :
            (s \o t)[i] = IF i <= Len(s) THEN s[i] ELSE t[i - Len(s)]
    BY ConcatProperties
<1>3. Len(s) <= Len(s \o t) /\ \A i \in 1 .. Len(s) : s[i] = (s \o t)[i]
    BY <1>1, <1>2
<1> QED BY <1>2, <1>3, PrefixByLetter

\* The first n letters, and the others.
LEMMA CutAt ==
    ASSUME NEW S, NEW s \in Seq(S), NEW n \in 0 .. Len(s)
    PROVE  /\ SubSeq(s, 1, n) \in Seq(S) /\ Len(SubSeq(s, 1, n)) = n
           /\ SubSeq(s, n + 1, Len(s)) \in Seq(S)
           /\ Len(SubSeq(s, n + 1, Len(s))) = Len(s) - n
           /\ SubSeq(s, 1, n) \o SubSeq(s, n + 1, Len(s)) = s
           /\ IsPrefix(SubSeq(s, 1, n), s)
<1>1. Len(s) \in Nat /\ n \in Int /\ 1 \in Int /\ n + 1 \in Int /\ Len(s) \in Int
    BY LenProperties
<1>2. (\A i \in 1 .. n : s[i] \in S) /\ (\A i \in n + 1 .. Len(s) : s[i] \in S)
    BY <1>1, ElementOfSeq
<1> DEFINE p == SubSeq(s, 1, n)
           q == SubSeq(s, n + 1, Len(s))
<1>3. /\ p \in Seq(S) /\ Len(p) = IF 1 <= n THEN n - 1 + 1 ELSE 0
      /\ \A i \in 1 .. n - 1 + 1 : p[i] = s[1 + i - 1]
    BY <1>1, <1>2, SubSeqProperties
<1>4. /\ q \in Seq(S)
      /\ Len(q) = IF n + 1 <= Len(s) THEN Len(s) - (n + 1) + 1 ELSE 0
    BY <1>1, <1>2, SubSeqProperties
<1>5. p \o q = s
  <2>1. 1 \in 1 .. Len(s) + 1 /\ n \in 1 - 1 .. Len(s) /\ Len(s) \in n .. Len(s)
      BY <1>1
  <2>2. p \o q = SubSeq(s, 1, Len(s))
      BY <2>1, ConcatAdjacentSubSeq
  <2> QED BY <2>2, SubSeqFull
<1> HIDE DEF p, q
<1>6. Len(p) = n /\ Len(q) = Len(s) - n
    BY <1>1, <1>3, <1>4
<1>7. IsPrefix(p, s)
    BY <1>3, <1>4, <1>5, PrefixOfLonger
<1> QED BY <1>3, <1>4, <1>5, <1>6, <1>7 DEF p, q

\* A concatenation is cut where it was put together.
LEMMA CutConcat ==
    ASSUME NEW S, NEW s \in Seq(S), NEW t \in Seq(S)
    PROVE  SubSeq(s \o t, 1, Len(s)) = s
    BY PrefixOfLonger DEF IsPrefix

LEMMA RangeOfConcat ==
    ASSUME NEW S, NEW s \in Seq(S), NEW t \in Seq(S)
    PROVE  Range(t) \subseteq Range(s \o t)
<1>1. Len(s) \in Nat /\ Len(t) \in Nat
    BY LenProperties
<1>2. /\ s \o t \in Seq(S) /\ Len(s \o t) = Len(s) + Len(t)
      /\ \A i \in 1 .. Len(s) + Len(t) :
            (s \o t)[i] = IF i <= Len(s) THEN s[i] ELSE t[i - Len(s)]
    BY ConcatProperties
<1>3. Range(t) = {t[i] : i \in 1 .. Len(t)} /\ Range(s \o t) = {(s \o t)[i] : i \in 1 .. Len(s \o t)}
    BY <1>2, RangeEquality
<1>4. ASSUME NEW i \in 1 .. Len(t)
      PROVE  i + Len(s) \in 1 .. Len(s \o t) /\ (s \o t)[i + Len(s)] = t[i]
    BY <1>1, <1>2
<1> QED BY <1>3, <1>4

LEMMA RangeOfPrefix ==
    ASSUME NEW S, NEW s \in Seq(S), NEW t \in Seq(S), IsPrefix(s, t)
    PROVE  Range(s) \subseteq Range(t)
<1>1. Len(s) \in Nat /\ Len(t) \in Nat
    BY LenProperties
<1>2. Len(s) <= Len(t) /\ \A i \in 1 .. Len(s) : s[i] = t[i]
    BY PrefixByLetter
<1>3. Range(s) = {s[i] : i \in 1 .. Len(s)} /\ Range(t) = {t[i] : i \in 1 .. Len(t)}
    BY RangeEquality
<1>4. ASSUME NEW i \in 1 .. Len(s)
      PROVE  i \in 1 .. Len(t) /\ s[i] = t[i]
    BY <1>1, <1>2
<1> QED BY <1>3, <1>4

-----------------------------------------------------------------------------
(* The states of the service, and what its edit sessions change.           *)

Strings == Seq(0..MaxLetters)
Words == Seq(Letters)
Fields == Contexts \cup {NoContext}
Documents == [Contexts -> [text : Strings, comp : Strings]]

States == [doc : Documents, input : Words, comp : Fields,
           preedit : 0..MaxLetters, pending : BOOLEAN, active : Fields,
           shown : [of : Words, gen : Nat], last : Words, ready : BOOLEAN,
           gen : 0..MaxGen, failures : 0..MaxFailures, undefined : BOOLEAN]

\* Only the range of the live composition is composed text.
Sound(w) == /\ w \in States
            /\ \A c \in Contexts : w.doc[c].comp # <<>> => w.comp = c
            /\ w.shown.gen <= w.gen

\* The members that an edit session leaves alone.
SameService(w, v) ==
  /\ v.input = w.input /\ v.preedit = w.preedit /\ v.pending = w.pending
  /\ v.active = w.active /\ v.shown = w.shown /\ v.last = w.last
  /\ v.ready = w.ready /\ v.gen = w.gen /\ v.undefined = w.undefined

\* v is w with the text t and the composition p in c, which k holds.
Edited(w, c, k, t, p, v) ==
  /\ Sound(v) /\ SameService(w, v) /\ v.failures = w.failures
  /\ v.comp = k /\ v.doc[c].text = t /\ v.doc[c].comp = p
  /\ \A x \in Contexts \ {c} : v.doc[x] = w.doc[x]

\* v is w after one failure.
OneFailure(w, v) ==
  /\ Sound(v) /\ SameService(w, v) /\ v.failures = w.failures + 1
  /\ v.comp = w.comp /\ v.doc = w.doc

LEMMA LettersAreText == Words \subseteq Strings
BY TextAssumption, SeqMonotonic DEF Words, Strings, Letters

LEMMA EditKeepsSound ==
    ASSUME NEW w, Sound(w), NEW c \in Contexts, NEW k \in Fields,
           NEW t \in Strings, NEW p \in Strings, p # <<>> => k = c,
           \A x \in Contexts \ {c} : w.comp = x => k = x
    PROVE  Edited(w, c, k, t, p, [w EXCEPT !.comp = k, !.doc[c] = [text |-> t, comp |-> p]])
<1> DEFINE d == [w.doc EXCEPT ![c] = [text |-> t, comp |-> p]]
           v == [w EXCEPT !.comp = k, !.doc = d]
<1>1. w \in States /\ w.doc \in Documents
    BY DEF Sound, States
<1>2. d \in Documents /\ d[c] = [text |-> t, comp |-> p] /\ \A x \in Contexts \ {c} : d[x] = w.doc[x]
    BY <1>1 DEF Documents
<1> HIDE DEF d
<1>3. /\ v \in States /\ v.doc = d /\ v.comp = k /\ SameService(w, v)
      /\ v.failures = w.failures
    BY <1>1, <1>2 DEF States, SameService
<1>4. v.doc[c].text = t /\ v.doc[c].comp = p
    BY <1>2, <1>3
<1>5. \A x \in Contexts : v.doc[x].comp # <<>> => v.comp = x
    BY <1>2, <1>3, <1>4 DEF Sound
<1>6. v.shown.gen <= v.gen
    BY <1>3 DEF Sound, SameService
<1>7. Edited(w, c, k, t, p, v)
    BY <1>2, <1>3, <1>4, <1>5, <1>6 DEF Edited, Sound
<1>8. [w EXCEPT !.comp = k, !.doc[c] = [text |-> t, comp |-> p]] = v
    BY <1>1 DEF d, States
<1> QED BY <1>7, <1>8

LEMMA FailureKeepsSound ==
    ASSUME NEW w, Sound(w), w.failures < MaxFailures
    PROVE  OneFailure(w, Failed(w))
<1>1. w \in States
    BY DEF Sound
<1>2. Failed(w) \in States
    BY <1>1, TextAssumption DEF Failed, States
<1> QED BY <1>1, <1>2 DEF OneFailure, Sound, SameService, Failed, States

LEMMA RefusalResults ==
    ASSUME NEW w, Sound(w), NEW r \in Refused(w)
    PROVE  ~r.ok /\ OneFailure(w, r.w)
BY FailureKeepsSound DEF Refused, Result

\* The range of the composition of a service is shown or made.
LEMMA UpdateResults ==
    ASSUME NEW w, Sound(w), NEW c \in Contexts, NEW text \in Strings,
           NEW r \in RequestUpdate(w, c, text)
    PROVE  \/ w.comp \notin {NoContext, c} /\ r.ok = FALSE /\ r.w = w
           \/ /\ w.comp \in {NoContext, c}
              /\ \/ r.ok = TRUE /\ Edited(w, c, c, w.doc[c].text, text, r.w)
                 \/ r.ok = FALSE /\ OneFailure(w, r.w)
<1>1. CASE w.comp \notin {NoContext, c}
    BY <1>1 DEF RequestUpdate, Result
<1>2. CASE w.comp \in {NoContext, c}
  <2>1. r \in Session(w, [w EXCEPT !.comp = c, !.doc[c].comp = text])
      BY <1>2 DEF RequestUpdate
  <2>2. CASE r \in Refused(w)
      BY <1>2, <2>2, RefusalResults DEF Refused, Result
  <2>3. CASE r = Result(TRUE, [w EXCEPT !.comp = c, !.doc[c].comp = text])
    <3>1. w.doc[c] = [text |-> w.doc[c].text, comp |-> w.doc[c].comp] /\ w.doc[c].text \in Strings
        BY DEF Sound, States, Documents
    <3>2. [w EXCEPT !.comp = c, !.doc[c].comp = text]
            = [w EXCEPT !.comp = c, !.doc[c] = [text |-> w.doc[c].text, comp |-> text]]
      <4> DEFINE d == [w.doc EXCEPT ![c].comp = text]
                 e == [w.doc EXCEPT ![c] = [text |-> w.doc[c].text, comp |-> text]]
      <4>1. d = e
          BY <3>1 DEF Sound, States, Documents
      <4>2. [w EXCEPT !.comp = c, !.doc = d] = [w EXCEPT !.comp = c, !.doc = e]
        <5> HIDE DEF d, e
        <5> QED BY <4>1
      <4> QED BY <4>2 DEF Sound, States
    <3>3. Edited(w, c, c, w.doc[c].text, text, r.w)
      <4>1. c \in Fields /\ w.doc[c].text \in Strings
            /\ \A x \in Contexts \ {c} : w.comp = x => c = x
          BY <1>2, <3>1, TextAssumption DEF Fields
      <4>2. Edited(w, c, c, w.doc[c].text, text,
                   [w EXCEPT !.comp = c, !.doc[c] = [text |-> w.doc[c].text, comp |-> text]])
          BY <4>1, EditKeepsSound
      <4> QED BY <2>3, <3>2, <4>2 DEF Result
    <3> QED BY <1>2, <2>3, <3>3 DEF Result
  <2> QED BY <2>1, <2>2, <2>3 DEF Session
<1> QED BY <1>1, <1>2

LEMMA CommitResults ==
    ASSUME NEW w, Sound(w), NEW c \in Contexts, NEW text \in Strings,
           NEW r \in RequestCommit(w, c, text)
    PROVE  \/ w.comp # c /\ r.ok = FALSE /\ r.w = w
           \/ /\ w.comp = c
              /\ \/ r.ok = TRUE /\ Edited(w, c, NoContext, w.doc[c].text \o text, <<>>, r.w)
                 \/ r.ok = FALSE /\ OneFailure(w, r.w)
<1> DEFINE v == [w EXCEPT !.comp = NoContext,
                          !.doc[c] = [text |-> @.text \o text, comp |-> <<>>]]
<1>1. CASE w.comp # c
    BY <1>1 DEF RequestCommit, Result
<1>2. CASE w.comp = c
  <2>1. r \in Session(w, v)
      BY <1>2 DEF RequestCommit
  <2>2. CASE r \in Refused(w)
      BY <1>2, <2>2, RefusalResults DEF Refused, Result
  <2>3. CASE r = Result(TRUE, v)
    <3>1. w.doc[c].text \in Strings
        BY DEF Sound, States, Documents
    <3>2. w.doc[c].text \o text \in Strings /\ <<>> \in Strings
        BY <3>1, PrefixOfLonger, EmptySeq DEF Strings
    <3>3. v = [w EXCEPT !.comp = NoContext,
                        !.doc[c] = [text |-> w.doc[c].text \o text, comp |-> <<>>]]
        BY DEF Sound, States, Documents
    <3>4. Edited(w, c, NoContext, w.doc[c].text \o text, <<>>, v)
        BY <1>2, <3>2, <3>3, EditKeepsSound, TextAssumption DEF Fields
    <3> QED BY <1>2, <2>3, <3>4 DEF Result
  <2> QED BY <2>1, <2>2, <2>3 DEF Session
<1> QED BY <1>1, <1>2

\* Part of what is written is committed, the rest composed anew.
LEMMA CommitAndRestartResults ==
    ASSUME NEW w, Sound(w), NEW c \in Contexts, NEW text \in Strings, NEW rest \in Strings,
           NEW r \in RequestCommitAndRestart(w, c, text, rest)
    PROVE  \/ w.comp # c /\ r.ok = FALSE /\ r.w = w
           \/ /\ w.comp = c
              /\ \/ r.ok = TRUE /\ Edited(w, c, c, w.doc[c].text \o text, rest, r.w)
                 \/ r.ok = FALSE /\ OneFailure(w, r.w)
                 \/ /\ r.ok = FALSE
                    /\ \E m : /\ Edited(w, c, NoContext, w.doc[c].text \o text, <<>>, m)
                              /\ OneFailure(m, r.w)
<1> DEFINE m == [w EXCEPT !.comp = NoContext,
                          !.doc[c] = [text |-> @.text \o text, comp |-> <<>>]]
           v == [m EXCEPT !.comp = c, !.doc[c].comp = rest]
           t == w.doc[c].text \o text
<1>1. CASE w.comp # c
    BY <1>1 DEF RequestCommitAndRestart, Result
<1>2. CASE w.comp = c
  <2>1. r = Result(TRUE, v) \/ r \in Refused(w) \/ r \in Refused(m)
    <3>1. r \in {Result(TRUE, v)} \cup Refused(w) \cup Refused(m)
        BY <1>2 DEF RequestCommitAndRestart
    <3> HIDE DEF m, v
    <3> QED BY <3>1
  <2>2. Edited(w, c, NoContext, t, <<>>, m)
    <3>1. Result(TRUE, m) \in RequestCommit(w, c, text)
        BY <1>2 DEF RequestCommit, Session
    <3>2. Result(TRUE, m).ok = TRUE /\ Result(TRUE, m).w = m
        BY DEF Result
    <3> HIDE DEF m
    <3> QED BY <1>2, <3>1, <3>2, CommitResults
  <2>3. Edited(w, c, c, t, rest, v)
    <3>1. Sound(m) /\ m.comp = NoContext
        BY <2>2 DEF Edited
    <3>2. Result(TRUE, v) \in RequestUpdate(m, c, rest)
        BY <3>1 DEF RequestUpdate, Session
    <3>3. Result(TRUE, v).ok = TRUE /\ Result(TRUE, v).w = v
        BY DEF Result
    <3> HIDE DEF m, v, t
    <3>4. Edited(m, c, c, m.doc[c].text, rest, v)
        BY <3>1, <3>2, <3>3, UpdateResults
    <3> QED BY <2>2, <3>4 DEF Edited, SameService
  <2> HIDE DEF m, v, t
  <2>4. CASE r = Result(TRUE, v)
      BY <1>2, <2>3, <2>4 DEF Result, t
  <2>5. CASE r \in Refused(w)
      BY <1>2, <2>5, RefusalResults DEF Refused, Result
  <2>6. CASE r \in Refused(m)
    <3>1. Sound(m)
        BY <2>2 DEF Edited
    <3>2. r.ok = FALSE /\ OneFailure(m, r.w)
        BY <2>6, <3>1, RefusalResults DEF Refused, Result
    <3> QED BY <1>2, <2>2, <3>2 DEF t
  <2> QED BY <2>1, <2>4, <2>5, <2>6
<1> QED BY <1>1, <1>2

\* The n characters before the caret are replaced.  Text that is not composed
\* is not touched when the composition is as long as that.
Replaced(w, c, n, text, t, p) ==
  /\ w.comp # c => p = <<>>
  /\ w.comp # c /\ n <= Len(w.doc[c].text)
       => t = SubSeq(w.doc[c].text, 1, Len(w.doc[c].text) - n) \o text
  /\ w.comp = c /\ n <= Len(w.doc[c].comp)
       => t = w.doc[c].text /\ Len(text) <= Len(p)

LEMMA ReplacementResults ==
    ASSUME NEW w, Sound(w), NEW c \in Contexts, NEW n \in Nat, NEW text \in Strings,
           NEW r \in RequestTextReplacement(w, c, n, text)
    PROVE  \/ r.ok = FALSE /\ OneFailure(w, r.w)
           \/ /\ r.ok = TRUE
              /\ \E t, p \in Strings : /\ Edited(w, c, w.comp, t, p, r.w)
                                       /\ Replaced(w, c, n, text, t, p)
<1> DEFINE T == w.doc[c].text
           C == w.doc[c].comp
           all == T \o C
           kept == IF n < Len(all) THEN Len(all) - n ELSE 0
           first == SubSeq(all, 1, kept)
           new == first \o text
           border == IF w.comp # c THEN Len(new) ELSE IF kept < Len(T) THEN kept ELSE Len(T)
           t == SubSeq(new, 1, border)
           p == SubSeq(new, border + 1, Len(new))
           v == [w EXCEPT !.doc[c] = [text |-> t, comp |-> p]]
<1>1. r = Result(TRUE, v) \/ r \in Refused(w)
    BY DEF RequestTextReplacement, Session
<1>2. T \in Strings /\ C \in Strings /\ Len(T) \in Nat /\ Len(C) \in Nat
      /\ (w.comp # c => C = <<>>)
    BY LenProperties DEF Sound, States, Documents, Strings
<1>3. Len(text) \in Nat
    BY LenProperties DEF Strings
<1>4. all \in Strings /\ Len(all) = Len(T) + Len(C) /\ IsPrefix(T, all)
    BY <1>2, PrefixOfLonger DEF Strings
<1>5. kept \in 0 .. Len(all)
  <2> HIDE DEF T, C, all
  <2>1. Len(all) \in Nat
      BY <1>4, LenProperties DEF Strings
  <2> QED BY <2>1
<1>6. first \in Strings /\ Len(first) = kept /\ IsPrefix(first, all)
    BY <1>4, <1>5, CutAt DEF Strings
<1>7. new \in Strings /\ Len(new) = kept + Len(text) /\ IsPrefix(first, new)
    BY <1>6, PrefixOfLonger DEF Strings
<1>8. border \in 0 .. Len(new)
  <2> HIDE DEF kept, new, T
  <2>1. kept \in Nat /\ Len(new) \in Nat /\ kept <= Len(new)
      BY <1>2, <1>3, <1>4, <1>5, <1>7
  <2> QED BY <1>2, <2>1
<1>9. t \in Strings /\ p \in Strings /\ Len(p) = Len(new) - border
  <2> HIDE DEF new, border
  <2> QED BY <1>7, <1>8, CutAt DEF Strings
<1>10. ASSUME w.comp # c
       PROVE  /\ t = new /\ p = <<>>
              /\ n <= Len(T) => t = SubSeq(T, 1, Len(T) - n) \o text
  <2>1. all = T
      BY <1>2, <1>10, ConcatEmptySeq DEF Strings
  <2>2. border = Len(new)
      BY <1>10
  <2>3. t = new
      BY <1>7, <2>2, SubSeqFull DEF Strings
  <2>4. p = <<>>
    <3>1. Len(p) = 0
      <4> HIDE DEF p, border, new
      <4>1. Len(new) \in Nat
          BY <1>7, LenProperties DEF Strings
      <4> QED BY <1>9, <2>2, <4>1
    <3> QED BY <1>9, <3>1, EmptySeq DEF Strings
  <2>5. ASSUME n <= Len(T)
        PROVE  kept = Len(T) - n
      BY <1>2, <2>1, <2>5
  <2> QED BY <2>1, <2>3, <2>4, <2>5
<1>11. ASSUME w.comp = c, n <= Len(C)
       PROVE  t = T /\ Len(text) <= Len(p)
  <2>1. kept >= Len(T) /\ border = Len(T)
    <3> HIDE DEF T, C, all
    <3>1. kept >= Len(T)
        BY <1>2, <1>4, <1>11
    <3> HIDE DEF kept
    <3> QED BY <1>2, <1>5, <1>11, <3>1
  <2>2. IsPrefix(T, first)
    <3> HIDE DEF kept, first, all
    <3>1. \A i \in 1 .. Len(T) : T[i] = all[i]
        BY <1>2, <1>4, PrefixByLetter DEF Strings
    <3>2. \A i \in 1 .. Len(first) : first[i] = all[i]
        BY <1>4, <1>6, PrefixByLetter DEF Strings
    <3>3. Len(T) <= Len(first) /\ \A i \in 1 .. Len(T) : T[i] = first[i]
        BY <1>2, <1>5, <1>6, <2>1, <3>1, <3>2
    <3> QED BY <1>2, <1>6, <3>3, PrefixByLetter DEF Strings
  <2>3. IsPrefix(T, new)
      BY <1>2, <1>6, <1>7, <2>2, PrefixOfPrefix DEF Strings
  <2>4. t = T
      BY <2>1, <2>3 DEF IsPrefix
  <2>5. Len(text) <= Len(p)
    <3> HIDE DEF kept, border, new, p
    <3> QED BY <1>2, <1>3, <1>5, <1>7, <1>9, <2>1
  <2> QED BY <2>4, <2>5
<1>12. Edited(w, c, w.comp, t, p, v)
  <2> HIDE DEF t, p
  <2>1. w.comp \in Fields /\ (p # <<>> => w.comp = c)
      BY <1>10 DEF Sound, States
  <2>2. v = [w EXCEPT !.comp = w.comp, !.doc[c] = [text |-> t, comp |-> p]]
    <3> DEFINE d == [w.doc EXCEPT ![c] = [text |-> t, comp |-> p]]
    <3>1. [w EXCEPT !.doc = d] = [w EXCEPT !.comp = w.comp, !.doc = d]
      <4> HIDE DEF d
      <4> QED BY DEF Sound, States
    <3> QED BY <3>1 DEF Sound, States
  <2>3. \A x \in Contexts \ {c} : w.comp = x => w.comp = x
      OBVIOUS
  <2> HIDE DEF v
  <2> QED BY <1>9, <2>1, <2>2, <2>3, EditKeepsSound
<1> HIDE DEF T, C, t, p, v
<1>13. CASE r = Result(TRUE, v)
  <2>1. r.ok = TRUE /\ r.w = v
      BY <1>13 DEF Result
  <2>2. Replaced(w, c, n, text, t, p)
      BY <1>10, <1>11 DEF Replaced, T, C
  <2> QED BY <1>9, <1>12, <2>1, <2>2
<1>14. CASE r \in Refused(w)
    BY <1>14, RefusalResults DEF Refused, Result
<1> QED BY <1>1, <1>13, <1>14

-----------------------------------------------------------------------------
(* Text that is not the preedit of the moment.                             *)

\* preedit_length_ is no longer than what it may delete.
Measured(w) ==
  w.preedit <= (IF w.active = NoContext THEN 0
                ELSE IF w.comp = w.active THEN Len(w.doc[w.active].comp)
                ELSE Len(w.doc[w.active].text))

\* From w to v, no text is removed but the preedit of the moment.
Kept(w, v) ==
  Measured(w) => /\ Measured(v)
                 /\ \A x \in Contexts : IsPrefix(Settled(w, x), Settled(v, x))

\* v is w but for failures.
OnlyFailures(w, v) == /\ Sound(v) /\ SameService(w, v) /\ w.failures <= v.failures
                      /\ v.comp = w.comp /\ v.doc = w.doc

LEMMA SoundTypes ==
    ASSUME NEW w, Sound(w)
    PROVE  /\ \A x \in Contexts : /\ w.doc[x].text \in Strings /\ w.doc[x].comp \in Strings
                                  /\ Len(w.doc[x].text) \in Nat /\ Len(w.doc[x].comp) \in Nat
           /\ w.input \in Words /\ Len(w.input) \in Nat /\ w.comp \in Fields
           /\ w.preedit \in 0..MaxLetters /\ w.pending \in BOOLEAN /\ w.active \in Fields
           /\ w.shown \in [of : Words, gen : Nat] /\ w.last \in Words /\ w.ready \in BOOLEAN
           /\ w.gen \in 0..MaxGen /\ w.failures \in 0..MaxFailures /\ w.undefined \in BOOLEAN
           /\ w.failures \in Nat /\ w.preedit \in Nat
<1>1. w \in States
    BY DEF Sound
<1>2. \A x \in Contexts : w.doc[x] \in [text : Strings, comp : Strings]
    BY <1>1 DEF States, Documents
<1>3. \A x \in Contexts : Len(w.doc[x].text) \in Nat /\ Len(w.doc[x].comp) \in Nat
    BY <1>2, LenProperties DEF Strings
<1>4. Len(w.input) \in Nat
    BY <1>1, LenProperties DEF Words, States
<1> QED BY <1>1, <1>2, <1>3, <1>4, TextAssumption DEF States

LEMMA SettledIsPrefix ==
    ASSUME NEW w, Sound(w), Measured(w), NEW x \in Contexts
    PROVE  /\ Settled(w, x) \in Strings
           /\ IsPrefix(Settled(w, x), w.doc[x].text)
           /\ w.preedit = 0 => Settled(w, x) = w.doc[x].text
<1> DEFINE T == w.doc[x].text
<1>1. T \in Strings /\ Len(T) \in Nat /\ w.preedit \in Nat /\ w.active \in Fields
    BY SoundTypes
<1> HIDE DEF T
<1>2. CASE w.comp = x \/ w.active # x
    BY <1>1, <1>2, PrefixOfItself DEF Settled, T, Strings
<1>3. CASE ~(w.comp = x \/ w.active # x)
  <2>1. w.preedit <= Len(T) /\ Settled(w, x) = SubSeq(T, 1, Len(T) - w.preedit)
      BY <1>3, TextAssumption DEF Settled, Measured, T
  <2>2. Len(T) - w.preedit \in 0 .. Len(T)
      BY <1>1, <2>1
  <2>3. w.preedit = 0 => Len(T) - w.preedit = Len(T)
      BY <1>1
  <2>4. SubSeq(T, 1, Len(T)) = T
      BY <1>1, SubSeqFull DEF Strings
  <2>5. SubSeq(T, 1, Len(T) - w.preedit) \in Strings
        /\ IsPrefix(SubSeq(T, 1, Len(T) - w.preedit), T)
      BY <1>1, <2>2, CutAt DEF Strings
  <2>6. w.preedit = 0 => Settled(w, x) = T
      BY <2>1, <2>3, <2>4
  <2> QED BY <2>1, <2>5, <2>6 DEF T
<1> QED BY <1>2, <1>3

LEMMA KeptTwice ==
    ASSUME NEW w, NEW v, NEW u, Sound(w), Sound(v), Sound(u), Kept(w, v), Kept(v, u)
    PROVE  Kept(w, u)
<1> SUFFICES ASSUME Measured(w)
             PROVE  /\ Measured(u)
                    /\ \A x \in Contexts : IsPrefix(Settled(w, x), Settled(u, x))
    BY DEF Kept
<1>1. Measured(v) /\ \A x \in Contexts : IsPrefix(Settled(w, x), Settled(v, x))
    BY DEF Kept
<1>2. Measured(u) /\ \A x \in Contexts : IsPrefix(Settled(v, x), Settled(u, x))
    BY <1>1 DEF Kept
<1>3. ASSUME NEW x \in Contexts
      PROVE  IsPrefix(Settled(w, x), Settled(u, x))
  <2>1. Settled(w, x) \in Strings /\ Settled(v, x) \in Strings /\ Settled(u, x) \in Strings
      BY <1>1, <1>2, SettledIsPrefix
  <2> QED BY <1>1, <1>2, <2>1, PrefixOfPrefix DEF Strings
<1> QED BY <1>2, <1>3

LEMMA SameIsKept ==
    ASSUME NEW w, NEW v, Sound(w), v.doc = w.doc, v.comp = w.comp, v.active = w.active,
           v.preedit = w.preedit
    PROVE  Kept(w, v)
<1>1. Measured(w) => Measured(v)
    BY DEF Measured
<1>2. ASSUME Measured(w), NEW x \in Contexts
      PROVE  IsPrefix(Settled(w, x), Settled(v, x))
  <2>1. Settled(v, x) = Settled(w, x)
      BY DEF Settled
  <2>2. Settled(w, x) \in Strings
      BY <1>2, SettledIsPrefix
  <2> QED BY <2>1, <2>2, PrefixOfItself DEF Strings
<1> QED BY <1>1, <1>2 DEF Kept

\* Where nothing is counted, or all that is counted is composed, all other text
\* is settled.
LEMMA GrownIsKept ==
    ASSUME NEW w, NEW v, Sound(w), Sound(v),
           \A x \in Contexts : IsPrefix(w.doc[x].text, v.doc[x].text),
           \/ v.preedit = 0
           \/ v.active \in Contexts /\ v.comp = v.active /\ v.preedit <= Len(v.doc[v.active].comp)
    PROVE  Kept(w, v)
<1>1. Measured(v)
  <2>1. CASE v.active = NoContext
      BY <2>1, TextAssumption DEF Measured
  <2>2. CASE v.active # NoContext
    <3>1. v.active \in Contexts
        BY <2>2, SoundTypes DEF Fields
    <3> QED BY <2>2, <3>1, SoundTypes DEF Measured
  <2> QED BY <2>1, <2>2
<1>2. ASSUME Measured(w), NEW x \in Contexts
      PROVE  IsPrefix(Settled(w, x), Settled(v, x))
  <2>1. Settled(v, x) = v.doc[x].text
    <3>1. CASE v.preedit = 0
        BY <1>1, <3>1, SettledIsPrefix
    <3>2. CASE v.comp = v.active
        BY <3>2 DEF Settled
    <3> QED BY <3>1, <3>2
  <2>2. Settled(w, x) \in Strings /\ IsPrefix(Settled(w, x), w.doc[x].text)
      BY <1>2, SettledIsPrefix
  <2>3. w.doc[x].text \in Strings /\ v.doc[x].text \in Strings
      BY SoundTypes
  <2> QED BY <2>1, <2>2, <2>3, PrefixOfPrefix DEF Strings
<1> QED BY <1>1, <1>2 DEF Kept

\* The replacement of the preedit: all that it shows then, or none of it, counts
\* as the preedit.
LEMMA ReplacedIsKept ==
    ASSUME NEW w, NEW v, Sound(w), Sound(v), NEW c \in Contexts, w.active = c, v.active = c,
           NEW text \in Strings, NEW t \in Strings, NEW p \in Strings,
           v.comp = w.comp, v.doc[c].text = t, v.doc[c].comp = p,
           \A x \in Contexts \ {c} : v.doc[x] = w.doc[x],
           Replaced(w, c, w.preedit, text, t, p),
           v.preedit = 0 \/ v.preedit = Len(text)
    PROVE  Kept(w, v)
<1> DEFINE T == w.doc[c].text
           s == SubSeq(T, 1, Len(T) - w.preedit)
<1> SUFFICES ASSUME Measured(w)
             PROVE  /\ Measured(v)
                    /\ \A x \in Contexts : IsPrefix(Settled(w, x), Settled(v, x))
    BY DEF Kept
<1>1. c # NoContext
    BY TextAssumption
<1>2. /\ T \in Strings /\ Len(T) \in Nat /\ w.preedit \in Nat /\ Len(text) \in Nat
      /\ Len(t) \in Nat /\ Len(p) \in Nat /\ v.preedit \in Nat /\ v.preedit <= Len(text)
    BY SoundTypes, LenProperties DEF Strings
<1>3. ASSUME NEW x \in Contexts \ {c}
      PROVE  IsPrefix(Settled(w, x), Settled(v, x))
  <2>1. Settled(w, x) = w.doc[x].text /\ Settled(v, x) = w.doc[x].text
      BY <1>3 DEF Settled
  <2> QED BY <2>1, SoundTypes, PrefixOfItself DEF Strings
<1>4. Measured(v) /\ IsPrefix(Settled(w, c), Settled(v, c))
  <2>1. CASE w.comp = c
    <3>1. w.preedit <= Len(w.doc[c].comp)
        BY <1>1, <2>1 DEF Measured
    <3>2. t = T /\ Len(text) <= Len(p)
        BY <2>1, <3>1 DEF Replaced
    <3>3. Measured(v)
        BY <1>1, <1>2, <2>1, <3>2 DEF Measured
    <3>4. Settled(w, c) = T /\ Settled(v, c) = T
        BY <2>1, <3>2 DEF Settled
    <3> QED BY <1>2, <3>3, <3>4, PrefixOfItself DEF Strings
  <2>2. CASE w.comp # c
    <3>1. w.preedit <= Len(T)
        BY <1>1, <2>2 DEF Measured
    <3>2. t = s \o text
        BY <2>2, <3>1 DEF Replaced
    <3>3. s \in Strings
      <4>1. Len(T) - w.preedit \in 0 .. Len(T)
          BY <1>2, <3>1
      <4> HIDE DEF T
      <4> QED BY <1>2, <4>1, CutAt DEF Strings
    <3>4. Settled(w, c) = s /\ Settled(v, c) = SubSeq(t, 1, Len(t) - v.preedit)
        BY <2>2 DEF Settled
    <3> HIDE DEF s, T
    <3>5. Len(t) = Len(s) + Len(text) /\ Len(s) \in Nat /\ IsPrefix(s, t)
        BY <3>2, <3>3, PrefixOfLonger, LenProperties DEF Strings
    <3>6. Measured(v)
        BY <1>1, <1>2, <2>2, <3>5 DEF Measured
    <3>7. CASE v.preedit = 0
      <4>1. Settled(v, c) = t
          BY <1>2, <3>4, <3>7, SubSeqFull DEF Strings
      <4> QED BY <3>4, <3>5, <3>6, <4>1
    <3>8. CASE v.preedit = Len(text)
      <4>1. Len(t) - v.preedit = Len(s)
          BY <1>2, <3>5, <3>8
      <4>2. Settled(v, c) = s
          BY <3>2, <3>3, <3>4, <4>1, CutConcat DEF Strings
      <4> QED BY <3>3, <3>4, <3>6, <4>2, PrefixOfItself DEF Strings
    <3> QED BY <3>7, <3>8
  <2> QED BY <2>1, <2>2
<1> QED BY <1>3, <1>4

-----------------------------------------------------------------------------
(* The steps of the service.                                               *)

\* v is w without input, preedit and candidates.
Cleared(w, v) ==
  /\ Sound(v) /\ v.input = <<>> /\ v.preedit = 0 /\ v.pending = FALSE
  /\ v.shown = NoPage /\ v.last = <<>>
  /\ v.doc = w.doc /\ v.comp = w.comp /\ v.active = w.active /\ v.ready = w.ready
  /\ v.gen = w.gen /\ v.failures = w.failures /\ v.undefined = w.undefined

\* The candidates are those of the input and of the last query, from an engine.
PageFits(w) == /\ w.shown.of \in {<<>>, w.input} /\ w.shown.of \in {<<>>, w.last}
               /\ ~w.ready => w.shown.of = <<>>

\* v is w but for the candidates.
OnlyPage(w, v) ==
  /\ Sound(v) /\ v.input = w.input /\ v.preedit = w.preedit /\ v.pending = w.pending
  /\ v.doc = w.doc /\ v.comp = w.comp /\ v.active = w.active /\ v.ready = w.ready
  /\ v.gen = w.gen /\ v.failures = w.failures /\ v.undefined = w.undefined

LEMMA ClearResult ==
    ASSUME NEW w, Sound(w)
    PROVE  Cleared(w, ClearCompositionState(w))
<1> DEFINE v == ClearCompositionState(w)
<1>1. w \in States
    BY DEF Sound
<1>2. <<>> \in Words /\ NoPage \in [of : Words, gen : Nat] /\ NoPage.gen = 0 /\ 0 \in 0..MaxLetters
    BY EmptySeq, TextAssumption DEF Words, NoPage
<1>3. /\ v \in States /\ v.input = <<>> /\ v.preedit = 0 /\ v.pending = FALSE
      /\ v.shown = NoPage /\ v.last = <<>>
      /\ v.doc = w.doc /\ v.comp = w.comp /\ v.active = w.active /\ v.ready = w.ready
      /\ v.gen = w.gen /\ v.failures = w.failures /\ v.undefined = w.undefined
    BY <1>1, <1>2 DEF ClearCompositionState, States
<1> HIDE DEF v
<1>4. Sound(v)
    BY <1>2, <1>3, SoundTypes DEF Sound
<1> QED BY <1>3, <1>4 DEF Cleared, v

LEMMA ClearedIsKept ==
    ASSUME NEW w, NEW v, NEW u, Sound(w), Sound(v), Cleared(v, u),
           \A x \in Contexts : IsPrefix(w.doc[x].text, v.doc[x].text)
    PROVE  Kept(w, u)
BY GrownIsKept DEF Cleared

LEMMA TextUnchanged ==
    ASSUME NEW w, Sound(w)
    PROVE  \A x \in Contexts : IsPrefix(w.doc[x].text, w.doc[x].text)
BY SoundTypes, PrefixOfItself DEF Strings

LEMMA RefreshResults ==
    ASSUME NEW w, Sound(w), NEW v \in RefreshCandidates(w)
    PROVE  /\ OnlyPage(w, v)
           /\ (w.last = w.input => w.shown.of \in {<<>>, w.last}) => PageFits(v)
<1>1. /\ NoPage \in [of : Words, gen : Nat] /\ NoPage.gen = 0 /\ NoPage.of = <<>>
      /\ <<>> \in Words /\ w.gen \in Nat /\ w.input \in Words
    BY EmptySeq, SoundTypes, TextAssumption DEF Words, NoPage
<1>2. CASE w.ready /\ w.input # <<>> /\ w.last = w.input
  <2>1. v = w
      BY <1>2 DEF RefreshCandidates
  <2> QED BY <1>2, <2>1 DEF OnlyPage, PageFits
<1>3. CASE ~(w.ready /\ w.input # <<>> /\ w.last = w.input)
  <2>1. PICK p \in {[of |-> w.input, gen |-> w.gen], NoPage}, q \in {<<>>, w.input} :
           /\ v = [w EXCEPT !.shown = p, !.last = q]
           /\ q = w.input \/ p = NoPage
           /\ w.ready \/ p = NoPage
    <3>1. CASE w.input = <<>> \/ ~w.ready
        BY <1>3, <3>1 DEF RefreshCandidates
    <3>2. CASE ~(w.input = <<>> \/ ~w.ready)
        BY <1>3, <3>2 DEF RefreshCandidates
    <3> QED BY <3>1, <3>2
  <2>2. p \in [of : Words, gen : Nat] /\ p.gen <= w.gen /\ p.of \in {<<>>, w.input} /\ q \in Words
      BY <1>1
  <2>3. w \in States
      BY DEF Sound
  <2>4. /\ v \in States /\ v.input = w.input /\ v.preedit = w.preedit /\ v.pending = w.pending
        /\ v.shown = p /\ v.last = q
        /\ v.doc = w.doc /\ v.comp = w.comp /\ v.active = w.active /\ v.ready = w.ready
        /\ v.gen = w.gen /\ v.failures = w.failures /\ v.undefined = w.undefined
      BY <2>1, <2>2, <2>3 DEF States
  <2>5. Sound(v)
      BY <2>2, <2>4 DEF Sound
  <2>6. PageFits(v)
      BY <1>1, <2>1, <2>2, <2>4 DEF PageFits
  <2> QED BY <2>4, <2>5, <2>6 DEF OnlyPage
<1> QED BY <1>2, <1>3

LEMMA NewPreedit ==
    ASSUME NEW w, Sound(w), NEW n \in 0..MaxLetters
    PROVE  LET v == [w EXCEPT !.preedit = n]
           IN /\ Sound(v) /\ v.preedit = n /\ v.input = w.input /\ v.pending = w.pending
              /\ v.doc = w.doc /\ v.comp = w.comp /\ v.active = w.active /\ v.ready = w.ready
              /\ v.shown = w.shown /\ v.last = w.last
              /\ v.gen = w.gen /\ v.failures = w.failures /\ v.undefined = w.undefined
<1> DEFINE v == [w EXCEPT !.preedit = n]
<1>1. w \in States
    BY DEF Sound
<1>2. /\ v \in States /\ v.preedit = n /\ v.input = w.input /\ v.pending = w.pending
      /\ v.doc = w.doc /\ v.comp = w.comp /\ v.active = w.active /\ v.ready = w.ready
      /\ v.shown = w.shown /\ v.last = w.last
      /\ v.gen = w.gen /\ v.failures = w.failures /\ v.undefined = w.undefined
    BY <1>1 DEF States
<1> HIDE DEF v
<1>3. Sound(v)
    BY <1>2 DEF Sound
<1> QED BY <1>2, <1>3 DEF v

\* v is w with another preedit in the document.
PreeditOnly(w, v) ==
  /\ Sound(v) /\ v.input = w.input /\ v.pending = w.pending /\ v.active = w.active
  /\ v.shown = w.shown /\ v.last = w.last /\ v.ready = w.ready /\ v.gen = w.gen
  /\ v.undefined = w.undefined /\ w.failures <= v.failures

LEMMA UpdatePreeditResults ==
    ASSUME NEW w, Sound(w), NEW c \in Contexts, NEW text \in Strings, Len(text) <= MaxLetters,
           NEW r \in UpdatePreedit(w, c, text)
    PROVE  /\ r.ok \in BOOLEAN /\ PreeditOnly(w, r.w)
           /\ w.active = c => Kept(w, r.w)
           /\ r.ok => r.w.preedit = Len(text)
           /\ r.w.failures = 0 /\ w.comp \in {NoContext, c} =>
                /\ r.ok /\ r.w.comp = c
                /\ r.w.doc[c].text = w.doc[c].text /\ r.w.doc[c].comp = text
                /\ \A x \in Contexts \ {c} : r.w.doc[x] = w.doc[x]
<1> DEFINE Shown(q) == IF q.ok THEN Result(TRUE, [q.w EXCEPT !.preedit = Len(text)]) ELSE q
<1>1. PICK q \in RequestUpdate(w, c, text) :
             r \in IF q.ok THEN {Shown(q)}
                   ELSE {Shown(s) : s \in RequestTextReplacement(q.w, c, w.preedit, text)}
    BY DEF UpdatePreedit
<1>2. Len(text) \in 0..MaxLetters /\ w.preedit \in Nat /\ w.failures \in Nat
    BY LenProperties, SoundTypes, TextAssumption DEF Strings
<1>3. CASE q.ok
  <2>1. w.comp \in {NoContext, c} /\ Edited(w, c, c, w.doc[c].text, text, q.w)
      BY <1>3, UpdateResults
  <2>2. r = Result(TRUE, [q.w EXCEPT !.preedit = Len(text)])
      BY <1>1, <1>3
  <2> DEFINE v == [q.w EXCEPT !.preedit = Len(text)]
  <2>3. /\ Sound(v) /\ v.preedit = Len(text) /\ v.doc = q.w.doc /\ v.comp = q.w.comp
        /\ v.failures = q.w.failures /\ v.active = q.w.active /\ PreeditOnly(q.w, v)
    <3>1. Sound(q.w)
        BY <2>1 DEF Edited
    <3> QED BY <1>2, <3>1, NewPreedit, SoundTypes DEF PreeditOnly
  <2>4. r.ok = TRUE /\ r.w = v
      BY <2>2 DEF Result
  <2> HIDE DEF v
  <2>5. PreeditOnly(w, v)
      BY <2>1, <2>3 DEF PreeditOnly, Edited, SameService
  <2>6. /\ v.comp = c /\ v.doc[c].text = w.doc[c].text /\ v.doc[c].comp = text
        /\ \A x \in Contexts \ {c} : v.doc[x] = w.doc[x]
      BY <2>1, <2>3 DEF Edited
  <2>7. w.active = c => Kept(w, v)
    <3>1. \A x \in Contexts : IsPrefix(w.doc[x].text, v.doc[x].text)
        BY <2>6, TextUnchanged
    <3>2. v.active = w.active /\ v.preedit <= Len(text)
        BY <1>2, <2>3, <2>5 DEF PreeditOnly
    <3> QED BY <2>3, <2>6, <3>1, <3>2, GrownIsKept
  <2> QED BY <2>3, <2>4, <2>5, <2>6, <2>7
<1>4. CASE ~q.ok
  <2>1. /\ OnlyFailures(w, q.w) /\ (w.comp \in {NoContext, c} => q.w.failures > 0)
    <3>1. (q.w = w /\ w.comp \notin {NoContext, c}) \/ OneFailure(w, q.w)
        BY <1>4, UpdateResults
    <3>2. ASSUME OneFailure(w, q.w)
          PROVE  OnlyFailures(w, q.w) /\ q.w.failures > 0
        BY <1>2, <3>2 DEF OneFailure, OnlyFailures
    <3>3. OnlyFailures(w, w)
        BY <1>2 DEF OnlyFailures, SameService
    <3> QED BY <3>1, <3>2, <3>3
  <2>2. PICK s \in RequestTextReplacement(q.w, c, w.preedit, text) : r = Shown(s)
      BY <1>1, <1>4
  <2>3. Sound(q.w) /\ q.w.failures \in Nat
      BY <2>1, SoundTypes DEF OnlyFailures
  <2>4. CASE s.ok = FALSE /\ OneFailure(q.w, s.w)
    <3>1. r.ok = FALSE /\ r.w = s.w
        BY <2>2, <2>4
    <3>2. PreeditOnly(w, s.w) /\ s.w.failures > 0
        BY <1>2, <2>1, <2>3, <2>4 DEF PreeditOnly, OnlyFailures, OneFailure, SameService
    <3>3. Kept(w, s.w)
        BY <2>1, <2>4, SameIsKept DEF OneFailure, OnlyFailures, SameService
    <3>4. r.w.failures # 0
        BY <3>1, <3>2
    <3> QED BY <3>1, <3>2, <3>3, <3>4
  <2>5. CASE ~(s.ok = FALSE /\ OneFailure(q.w, s.w))
    <3>0. /\ s.ok = TRUE
          /\ \E t, p \in Strings : /\ Edited(q.w, c, q.w.comp, t, p, s.w)
                                   /\ Replaced(q.w, c, w.preedit, text, t, p)
        BY <1>2, <2>2, <2>3, <2>5, ReplacementResults
    <3>1. PICK t \in Strings, p \in Strings : /\ Edited(q.w, c, q.w.comp, t, p, s.w)
                                             /\ Replaced(q.w, c, w.preedit, text, t, p)
        BY <3>0
    <3> DEFINE v == [s.w EXCEPT !.preedit = Len(text)]
    <3>2. r.ok = TRUE /\ r.w = v
        BY <2>2, <3>0 DEF Result
    <3>3. /\ Sound(v) /\ v.preedit = Len(text) /\ v.doc = s.w.doc /\ v.comp = s.w.comp
          /\ v.failures = s.w.failures /\ v.active = s.w.active /\ PreeditOnly(s.w, v)
      <4>1. Sound(s.w)
          BY <3>1 DEF Edited
      <4> QED BY <1>2, <4>1, NewPreedit, SoundTypes DEF PreeditOnly
    <3> HIDE DEF v
    <3>4. PreeditOnly(w, v) /\ (w.comp \in {NoContext, c} => v.failures > 0)
        BY <2>1, <3>1, <3>3 DEF PreeditOnly, Edited, SameService, OnlyFailures
    <3>5. ASSUME w.active = c
          PROVE  Kept(w, v)
      <4>1. /\ v.active = c /\ v.comp = w.comp /\ v.doc[c].text = t /\ v.doc[c].comp = p
            /\ \A x \in Contexts \ {c} : v.doc[x] = w.doc[x]
            /\ q.w.comp = w.comp /\ q.w.doc = w.doc
          BY <2>1, <3>1, <3>3, <3>4, <3>5 DEF Edited, OnlyFailures, PreeditOnly
      <4>2. Replaced(w, c, w.preedit, text, t, p)
          BY <3>1, <4>1 DEF Replaced
      <4> QED BY <3>3, <3>5, <4>1, <4>2, ReplacedIsKept
    <3>6. w.comp \in {NoContext, c} => v.failures # 0
        BY <3>4
    <3> QED BY <3>2, <3>3, <3>4, <3>5, <3>6
  <2> QED BY <2>4, <2>5
<1> QED BY <1>3, <1>4

\* What every step of the service leaves true.
Proceeds(w, v) == /\ Sound(v) /\ Len(v.input) <= Len(w.input) /\ w.failures <= v.failures
                  /\ v.active = w.active

LEMMA EmptyText == <<>> \in Strings /\ <<>> \in Words /\ Len(<<>>) = 0
BY EmptySeq DEF Strings, Words

LEMMA OneFailureOnly ==
    ASSUME NEW w, Sound(w), NEW v, OneFailure(w, v)
    PROVE  OnlyFailures(w, v) /\ v.failures # 0
<1>1. w.failures \in Nat
    BY SoundTypes
<1> QED BY <1>1 DEF OneFailure, OnlyFailures

LEMMA SameOnlyFailures ==
    ASSUME NEW w, Sound(w)
    PROVE  OnlyFailures(w, w)
BY SoundTypes DEF OnlyFailures, SameService

LEMMA FailuresAdd ==
    ASSUME NEW w, NEW v, NEW u, Sound(w), OnlyFailures(w, v), OnlyFailures(v, u)
    PROVE  OnlyFailures(w, u) /\ (v.failures # 0 => u.failures # 0)
<1>1. w.failures \in Nat /\ v.failures \in Nat /\ u.failures \in Nat
    BY SoundTypes DEF OnlyFailures
<1> QED BY <1>1 DEF OnlyFailures, SameService

LEMMA FailuresProceed ==
    ASSUME NEW w, NEW v, Sound(w), OnlyFailures(w, v)
    PROVE  Proceeds(w, v) /\ Kept(w, v)
<1>1. Len(w.input) \in Nat
    BY SoundTypes
<1>2. Kept(w, v)
    BY SameIsKept DEF OnlyFailures, SameService
<1>3. Proceeds(w, v)
    BY <1>1 DEF Proceeds, OnlyFailures, SameService
<1> QED BY <1>2, <1>3

\* A fallback: the preedit of w is replaced in u, after a failure.
FellBack(w, u, c, text, v) ==
  /\ Sound(v) /\ v.failures = u.failures
  /\ v.active = w.active /\ v.comp = w.comp /\ v.input = w.input
  /\ \E t, p \in Strings : /\ Replaced(w, c, w.preedit, text, t, p)
                           /\ v.doc[c].text = t /\ v.doc[c].comp = p
                           /\ \A x \in Contexts \ {c} : v.doc[x] = w.doc[x]

LEMMA FallbackResults ==
    ASSUME NEW w, Sound(w), NEW u, OnlyFailures(w, u), NEW c \in Contexts,
           NEW text \in Strings, NEW s \in RequestTextReplacement(u, c, w.preedit, text)
    PROVE  \/ s.ok = FALSE /\ OnlyFailures(w, s.w) /\ s.w.failures # 0
           \/ s.ok = TRUE /\ FellBack(w, u, c, text, s.w)
<1>1. Sound(u) /\ w.preedit \in Nat
    BY SoundTypes DEF OnlyFailures
<1>2. CASE s.ok = FALSE /\ OneFailure(u, s.w)
    BY <1>1, <1>2, OneFailureOnly, FailuresAdd
<1>3. CASE ~(s.ok = FALSE /\ OneFailure(u, s.w))
  <2>1. /\ s.ok = TRUE
        /\ \E t, p \in Strings : /\ Edited(u, c, u.comp, t, p, s.w)
                                 /\ Replaced(u, c, w.preedit, text, t, p)
      BY <1>1, <1>3, ReplacementResults
  <2>2. PICK t \in Strings, p \in Strings : /\ Edited(u, c, u.comp, t, p, s.w)
                                            /\ Replaced(u, c, w.preedit, text, t, p)
      BY <2>1
  <2>3. u.doc = w.doc /\ u.comp = w.comp
      BY DEF OnlyFailures
  <2>4. Replaced(w, c, w.preedit, text, t, p)
      BY <2>2, <2>3 DEF Replaced
  <2>5. /\ Sound(s.w) /\ s.w.failures = u.failures
        /\ s.w.active = w.active /\ s.w.comp = w.comp /\ s.w.input = w.input
        /\ s.w.doc[c].text = t /\ s.w.doc[c].comp = p
        /\ \A x \in Contexts \ {c} : s.w.doc[x] = w.doc[x]
      BY <2>2, <2>3 DEF Edited, SameService, OnlyFailures
  <2>6. FellBack(w, u, c, text, s.w)
      BY <2>4, <2>5 DEF FellBack
  <2> QED BY <2>1, <2>6
<1> QED BY <1>2, <1>3

LEMMA FallbackCleared ==
    ASSUME NEW w, Sound(w), NEW u, OnlyFailures(w, u), NEW c \in Contexts, w.active = c,
           NEW text \in Strings, NEW s \in RequestTextReplacement(u, c, w.preedit, text)
    PROVE  Kept(w, ClearCompositionState(s.w))
<1> DEFINE v == ClearCompositionState(s.w)
<1>1. CASE s.ok = FALSE /\ OnlyFailures(w, s.w)
  <2>1. Sound(s.w) /\ s.w.doc = w.doc
      BY <1>1 DEF OnlyFailures
  <2>2. Cleared(s.w, v)
      BY <2>1, ClearResult
  <2> HIDE DEF v
  <2>3. \A x \in Contexts : IsPrefix(w.doc[x].text, s.w.doc[x].text)
      BY <2>1, TextUnchanged
  <2> QED BY <2>1, <2>2, <2>3, ClearedIsKept DEF v
<1>2. CASE ~(s.ok = FALSE /\ OnlyFailures(w, s.w))
  <2>1. FellBack(w, u, c, text, s.w)
      BY <1>2, FallbackResults
  <2>2. PICK t \in Strings, p \in Strings :
             /\ Replaced(w, c, w.preedit, text, t, p)
             /\ s.w.doc[c].text = t /\ s.w.doc[c].comp = p
             /\ \A x \in Contexts \ {c} : s.w.doc[x] = w.doc[x]
      BY <2>1 DEF FellBack
  <2>3. Cleared(s.w, v)
      BY <2>1, ClearResult DEF FellBack
  <2> HIDE DEF v
  <2>4. Sound(v) /\ v.active = c /\ v.comp = w.comp /\ v.doc = s.w.doc /\ v.preedit = 0
      BY <2>1, <2>3 DEF Cleared, FellBack
  <2>5. Kept(w, v)
      BY <2>2, <2>4, ReplacedIsKept
  <2> QED BY <2>5 DEF v
<1> QED BY <1>1, <1>2

LEMMA CommitTextResults ==
    ASSUME NEW w, Sound(w), NEW c \in Contexts, NEW text \in Strings,
           NEW r \in CommitText(w, c, text)
    PROVE  /\ Proceeds(w, r.w)
           /\ w.active = c => Kept(w, r.w)
           /\ r.w.failures = 0 /\ w.comp = c =>
                \E v : Edited(w, c, NoContext, w.doc[c].text \o text, <<>>, v) /\ Cleared(v, r.w)
<1> DEFINE Done(q) == IF q.ok THEN Result(TRUE, ClearCompositionState(q.w)) ELSE q
           first == IF w.comp = NoContext THEN {Result(FALSE, w)} ELSE RequestCommit(w, c, text)
<1>1. PICK q \in first : r \in IF q.ok THEN {Done(q)}
                               ELSE {Done(s) : s \in RequestTextReplacement(q.w, c, w.preedit, text)}
    BY DEF CommitText
<1>2. Len(w.input) \in Nat /\ w.failures \in Nat
    BY SoundTypes
<1>3. CASE q.ok
  <2>1. q \in RequestCommit(w, c, text)
      BY <1>3 DEF Result
  <2>2. w.comp = c /\ Edited(w, c, NoContext, w.doc[c].text \o text, <<>>, q.w)
      BY <1>3, <2>1, CommitResults
  <2>3. r = Result(TRUE, ClearCompositionState(q.w))
      BY <1>1, <1>3
  <2>4. r.w = ClearCompositionState(q.w)
      BY <2>3 DEF Result
  <2>5. Sound(q.w) /\ Cleared(q.w, r.w)
      BY <2>2, <2>4, ClearResult DEF Edited
  <2>6. Proceeds(w, r.w)
      BY <1>2, <2>2, <2>5, EmptyText DEF Edited, SameService, Cleared, Proceeds
  <2>7. Kept(w, r.w)
    <3>1. IsPrefix(w.doc[c].text, q.w.doc[c].text)
        BY <2>2, SoundTypes, PrefixOfLonger DEF Edited, Strings
    <3>2. \A x \in Contexts : IsPrefix(w.doc[x].text, q.w.doc[x].text)
        BY <2>2, <3>1, TextUnchanged DEF Edited
    <3> QED BY <2>5, <3>2, ClearedIsKept
  <2> QED BY <2>2, <2>5, <2>6, <2>7
<1>4. CASE ~q.ok
  <2>1. OnlyFailures(w, q.w) /\ (w.comp = c => q.w.failures # 0)
    <3>1. CASE w.comp = NoContext
      <4>1. q = Result(FALSE, w)
          BY <3>1
      <4> QED BY <3>1, <4>1, SameOnlyFailures, TextAssumption DEF Result
    <3>2. CASE w.comp # NoContext
      <4>1. (q.w = w /\ w.comp # c) \/ OneFailure(w, q.w)
          BY <1>4, <3>2, CommitResults
      <4> QED BY <4>1, OneFailureOnly, SameOnlyFailures
    <3> QED BY <3>1, <3>2
  <2>2. PICK s \in RequestTextReplacement(q.w, c, w.preedit, text) : r = Done(s)
      BY <1>1, <1>4
  <2> HIDE DEF first
  <2>3. CASE s.ok
    <3>1. r.w = ClearCompositionState(s.w)
        BY <2>2, <2>3 DEF Result
    <3>2. /\ Sound(s.w) /\ q.w.failures = s.w.failures
          /\ w.active = s.w.active
      <4>1. FellBack(w, q.w, c, text, s.w)
          BY <2>1, <2>3, FallbackResults
      <4> QED BY <4>1 DEF FellBack
    <3>3. Cleared(s.w, r.w)
        BY <3>1, <3>2, ClearResult
    <3>4. w.comp = c => r.w.failures # 0
        BY <2>1, <3>2, <3>3 DEF Cleared
    <3>5. Proceeds(w, r.w)
        BY <1>2, <2>1, <3>2, <3>3, EmptyText DEF Cleared, Proceeds, OnlyFailures
    <3>6. w.active = c => Kept(w, r.w)
        BY <2>1, <3>1, FallbackCleared
    <3> QED BY <3>4, <3>5, <3>6
  <2>4. CASE ~s.ok
    <3>1. r = s
        BY <2>2, <2>4
    <3>2. OnlyFailures(w, s.w) /\ s.w.failures # 0
        BY <2>1, <2>4, FallbackResults
    <3> QED BY <3>1, <3>2, FailuresProceed
  <2> QED BY <2>3, <2>4
<1> QED BY <1>3, <1>4

LEMMA CancelResults ==
    ASSUME NEW w, Sound(w), NEW r \in CancelComposition(w, w.active)
    PROVE  /\ Proceeds(w, r.w) /\ Kept(w, r.w)
           /\ \E u : Sound(u) /\ Cleared(u, r.w)
           /\ r.w.failures = 0 /\ w.comp \in {NoContext, w.active} =>
                r.w.comp = NoContext /\ \A x \in Contexts : r.w.doc[x].text = w.doc[x].text
<1> DEFINE c == w.active
           first == IF c = NoContext \/ w.comp = NoContext THEN {Result(TRUE, w)}
                    ELSE RequestCommit(w, c, <<>>)
           second(f) == IF f.ok \/ w.preedit = 0 THEN {f}
                        ELSE RequestTextReplacement(f.w, c, w.preedit, <<>>)
<1>0. PICK q \in UNION {second(f) : f \in first} : r = Result(q.ok, ClearCompositionState(q.w))
    BY DEF CancelComposition
<1>1. PICK f \in first : q \in second(f)
    OBVIOUS
<1>2. r.w = ClearCompositionState(q.w)
    BY <1>0 DEF Result
<1>3. Len(w.input) \in Nat /\ w.failures \in Nat /\ c \in Fields
    BY SoundTypes
<1>4. ASSUME Sound(q.w), q.w.active = w.active, w.failures <= q.w.failures,
             \A x \in Contexts : IsPrefix(w.doc[x].text, q.w.doc[x].text)
      PROVE  /\ Proceeds(w, r.w) /\ Kept(w, r.w)
             /\ \E u : Sound(u) /\ Cleared(u, r.w)
             /\ r.w.failures = q.w.failures /\ r.w.comp = q.w.comp /\ r.w.doc = q.w.doc
  <2>1. Cleared(q.w, r.w)
      BY <1>2, <1>4, ClearResult
  <2>2. Kept(w, r.w)
      BY <1>4, <2>1, ClearedIsKept
  <2> QED BY <1>3, <1>4, <2>1, <2>2, EmptyText DEF Cleared, Proceeds
<1>5. ASSUME OnlyFailures(w, q.w), w.comp \in {NoContext, c} => q.w.failures # 0 \/ w.comp = NoContext
      PROVE  /\ Proceeds(w, r.w) /\ Kept(w, r.w)
             /\ \E u : Sound(u) /\ Cleared(u, r.w)
             /\ r.w.failures = 0 /\ w.comp \in {NoContext, w.active} =>
                  r.w.comp = NoContext /\ \A x \in Contexts : r.w.doc[x].text = w.doc[x].text
  <2>1. /\ Sound(q.w) /\ q.w.active = w.active /\ w.failures <= q.w.failures
        /\ q.w.doc = w.doc /\ q.w.comp = w.comp
      BY <1>5 DEF OnlyFailures, SameService
  <2>2. \A x \in Contexts : IsPrefix(w.doc[x].text, q.w.doc[x].text)
      BY <2>1, TextUnchanged
  <2> HIDE DEF first, second
  <2> QED BY <1>4, <1>5, <2>1, <2>2
<1>6. CASE c = NoContext \/ w.comp = NoContext
  <2>1. f = Result(TRUE, w)
      BY <1>1, <1>6
  <2>2. q = f
      BY <1>1, <2>1 DEF Result
  <2>3. q.w = w
      BY <2>1, <2>2 DEF Result
  <2>4. OnlyFailures(w, q.w)
      BY <2>3, SameOnlyFailures
  <2>5. w.comp \in {NoContext, c} => w.comp = NoContext
      BY <1>6
  <2> HIDE DEF c, first, second
  <2> QED BY <1>5, <2>4, <2>5 DEF c
<1>7. CASE c # NoContext /\ w.comp # NoContext
  <2>1. c \in Contexts /\ f \in RequestCommit(w, c, <<>>)
      BY <1>1, <1>3, <1>7 DEF Fields
  <2>2. CASE f.ok
    <3>1. w.comp = c /\ Edited(w, c, NoContext, w.doc[c].text \o <<>>, <<>>, f.w)
        BY <2>1, <2>2, EmptyText, CommitResults
    <3>2. q = f
        BY <1>1, <2>2
    <3>3. w.doc[c].text \o <<>> = w.doc[c].text
        BY <2>1, SoundTypes, ConcatEmptySeq DEF Strings
    <3>4. \A x \in Contexts : q.w.doc[x].text = w.doc[x].text
        BY <3>1, <3>2, <3>3 DEF Edited
    <3>5. \A x \in Contexts : IsPrefix(w.doc[x].text, q.w.doc[x].text)
        BY <3>4, TextUnchanged
    <3>6. /\ Sound(q.w) /\ q.w.active = w.active /\ w.failures <= q.w.failures
          /\ q.w.comp = NoContext
        BY <1>3, <3>1, <3>2 DEF Edited, SameService
    <3> HIDE DEF c, first, second
    <3> QED BY <1>4, <3>4, <3>5, <3>6
  <2>3. CASE ~f.ok
    <3>1. OnlyFailures(w, f.w) /\ (w.comp = c => f.w.failures # 0)
      <4>1. (f.w = w /\ w.comp # c) \/ OneFailure(w, f.w)
          BY <2>1, <2>3, EmptyText, CommitResults
      <4> QED BY <4>1, OneFailureOnly, SameOnlyFailures
    <3>2. CASE w.preedit = 0
      <4>1. q = f
          BY <1>1, <3>2
      <4> HIDE DEF c, first, second
      <4>2. w.comp \in {NoContext, c} => q.w.failures # 0
          BY <1>7, <3>1, <4>1
      <4> QED BY <1>5, <3>1, <4>1, <4>2 DEF c
    <3>3. CASE w.preedit # 0
      <4>1. q \in RequestTextReplacement(f.w, c, w.preedit, <<>>)
          BY <1>1, <2>3, <3>3
      <4> HIDE DEF first, second
      <4>2. CASE q.ok = FALSE
        <5>1. OnlyFailures(w, q.w) /\ q.w.failures # 0
            BY <2>1, <3>1, <4>1, <4>2, EmptyText, FallbackResults
        <5> QED BY <1>5, <5>1
      <4>3. CASE q.ok # FALSE
        <5>1. /\ Sound(q.w) /\ f.w.failures = q.w.failures
              /\ w.active = q.w.active /\ w.comp = q.w.comp
          <6>1. FellBack(w, f.w, c, <<>>, q.w)
              BY <2>1, <3>1, <4>1, <4>3, EmptyText, FallbackResults
          <6> QED BY <6>1 DEF FellBack
        <5>2. Cleared(q.w, r.w)
            BY <1>2, <5>1, ClearResult
        <5>3. Kept(w, r.w)
            BY <1>2, <2>1, <3>1, <4>1, EmptyText, FallbackCleared
        <5>4. Proceeds(w, r.w)
            BY <1>3, <3>1, <5>1, <5>2, EmptyText DEF Cleared, Proceeds, OnlyFailures
        <5>5. w.comp \in {NoContext, w.active} => r.w.failures # 0
            BY <1>7, <3>1, <5>1, <5>2 DEF Cleared
        <5> QED BY <5>1, <5>2, <5>3, <5>4, <5>5
      <4> QED BY <4>2, <4>3
    <3> QED BY <3>2, <3>3
  <2> QED BY <2>2, <2>3
<1> QED BY <1>6, <1>7

\* Text of d that extends what is settled in w.
SettledIn(w, d) == Measured(w) => \A x \in Contexts : IsPrefix(Settled(w, x), d[x].text)

LEMMA SettledInIsKept ==
    ASSUME NEW w, NEW v, Sound(w), Sound(v), SettledIn(w, v.doc),
           \/ v.preedit = 0
           \/ v.active \in Contexts /\ v.comp = v.active /\ v.preedit <= Len(v.doc[v.active].comp)
    PROVE  Kept(w, v)
<1>1. Measured(v) /\ \A x \in Contexts : IsPrefix(v.doc[x].text, Settled(v, x))
  <2>1. Kept(v, v)
      BY SameIsKept
  <2>2. Measured(v)
    <3>1. CASE v.active = NoContext
        BY <3>1, TextAssumption DEF Measured
    <3>2. CASE v.active # NoContext
      <4>1. v.active \in Contexts
          BY <3>2, SoundTypes DEF Fields
      <4> QED BY <3>2, <4>1, SoundTypes DEF Measured
    <3> QED BY <3>1, <3>2
  <2>3. ASSUME NEW x \in Contexts
        PROVE  Settled(v, x) = v.doc[x].text
    <3>1. CASE v.preedit = 0
        BY <2>2, <3>1, SettledIsPrefix
    <3>2. CASE v.comp = v.active
        BY <3>2 DEF Settled
    <3> QED BY <3>1, <3>2
  <2> QED BY <2>2, <2>3, TextUnchanged
<1>2. ASSUME Measured(w), NEW x \in Contexts
      PROVE  IsPrefix(Settled(w, x), Settled(v, x))
  <2>1. Settled(w, x) \in Strings /\ Settled(v, x) \in Strings /\ v.doc[x].text \in Strings
      BY <1>1, <1>2, SettledIsPrefix, SoundTypes
  <2>2. IsPrefix(Settled(w, x), v.doc[x].text)
      BY <1>2 DEF SettledIn
  <2> QED BY <1>1, <2>1, <2>2, PrefixOfPrefix DEF Strings
<1> QED BY <1>1, <1>2 DEF Kept

\* Text that only grew.
LEMMA GrownIsSettled ==
    ASSUME NEW w, NEW d, Sound(w), NEW c \in Contexts, NEW text \in Strings,
           d[c].text = w.doc[c].text \o text,
           \A x \in Contexts \ {c} : d[x] = w.doc[x]
    PROVE  SettledIn(w, d)
<1> SUFFICES ASSUME Measured(w), NEW x \in Contexts
             PROVE  IsPrefix(Settled(w, x), d[x].text)
    BY DEF SettledIn
<1>1. Settled(w, x) \in Strings /\ IsPrefix(Settled(w, x), w.doc[x].text) /\ w.doc[x].text \in Strings
    BY SettledIsPrefix, SoundTypes
<1>2. CASE x # c
    BY <1>1, <1>2
<1>3. CASE x = c
  <2>1. IsPrefix(w.doc[c].text, d[c].text) /\ d[c].text \in Strings
      BY <1>1, <1>3, PrefixOfLonger DEF Strings
  <2> QED BY <1>1, <1>3, <2>1, PrefixOfPrefix DEF Strings
<1> QED BY <1>2, <1>3

\* The preedit, not composed, is replaced by other text.
LEMMA ReplacedIsSettled ==
    ASSUME NEW w, NEW d, Sound(w), NEW c \in Contexts, w.active = c, w.comp = NoContext,
           NEW text \in Strings, NEW t, NEW p,
           Replaced(w, c, w.preedit, text, t, p), d[c].text = t,
           \A x \in Contexts \ {c} : d[x] = w.doc[x]
    PROVE  SettledIn(w, d)
<1> SUFFICES ASSUME Measured(w), NEW x \in Contexts
             PROVE  IsPrefix(Settled(w, x), d[x].text)
    BY DEF SettledIn
<1>1. Settled(w, x) \in Strings /\ IsPrefix(Settled(w, x), w.doc[x].text) /\ w.doc[x].text \in Strings
    BY SettledIsPrefix, SoundTypes
<1>2. CASE x # c
    BY <1>1, <1>2
<1>3. CASE x = c
  <2>1. w.comp # c /\ c # NoContext
      BY TextAssumption
  <2>2. w.preedit <= Len(w.doc[c].text)
      BY <2>1 DEF Measured
  <2>3. t = SubSeq(w.doc[c].text, 1, Len(w.doc[c].text) - w.preedit) \o text
      BY <2>1, <2>2 DEF Replaced
  <2>4. Settled(w, c) = SubSeq(w.doc[c].text, 1, Len(w.doc[c].text) - w.preedit)
      BY <2>1 DEF Settled
  <2>5. t = Settled(w, c) \o text /\ Settled(w, c) \in Strings
      BY <1>1, <1>3, <2>3, <2>4
  <2>6. IsPrefix(Settled(w, c), t)
      BY <2>5, PrefixOfLonger DEF Strings
  <2> QED BY <1>3, <2>6
<1> QED BY <1>2, <1>3

\* v is w but for its engine.
EngineOnly(w, v) ==
  /\ Sound(v) /\ v.doc = w.doc /\ v.comp = w.comp /\ v.active = w.active
  /\ v.input = w.input /\ v.preedit = w.preedit /\ v.pending = w.pending
  /\ v.shown = w.shown /\ v.last = w.last /\ w.failures <= v.failures
  /\ v.failures = 0 /\ ~v.ready => ~w.ready

LEMMA EngineStarts ==
    ASSUME NEW w, Sound(w), w.gen < MaxGen
    PROVE  EngineOnly(w, [w EXCEPT !.ready = TRUE, !.gen = @ + 1])
<1> DEFINE v == [w EXCEPT !.ready = TRUE, !.gen = @ + 1]
<1>1. w \in States /\ w.gen \in Nat /\ w.gen + 1 \in 0..MaxGen /\ w.failures \in Nat
      /\ w.shown.gen \in Nat /\ w.shown.gen <= w.gen
    BY SoundTypes, TextAssumption DEF Sound
<1>2. /\ v \in States /\ v.ready = TRUE /\ v.gen = w.gen + 1
      /\ v.doc = w.doc /\ v.comp = w.comp /\ v.active = w.active
      /\ v.input = w.input /\ v.preedit = w.preedit /\ v.pending = w.pending
      /\ v.shown = w.shown /\ v.last = w.last /\ v.failures = w.failures
    BY <1>1 DEF States
<1> HIDE DEF v
<1>3. Sound(v)
    BY <1>1, <1>2 DEF Sound
<1>4. EngineOnly(w, v)
    BY <1>1, <1>2, <1>3 DEF EngineOnly
<1> QED BY <1>4 DEF v

LEMMA EngineLost ==
    ASSUME NEW w, Sound(w), w.failures < MaxFailures
    PROVE  EngineOnly(w, [Failed(w) EXCEPT !.ready = FALSE])
<1> DEFINE v == [Failed(w) EXCEPT !.ready = FALSE]
<1>1. w \in States /\ w.failures \in Nat /\ w.failures + 1 \in 0..MaxFailures
    BY SoundTypes, TextAssumption DEF Sound
<1>2. /\ v \in States /\ v.ready = FALSE /\ v.gen = w.gen
      /\ v.doc = w.doc /\ v.comp = w.comp /\ v.active = w.active
      /\ v.input = w.input /\ v.preedit = w.preedit /\ v.pending = w.pending
      /\ v.shown = w.shown /\ v.last = w.last /\ v.failures = w.failures + 1
    BY <1>1 DEF States, Failed
<1> HIDE DEF v
<1>3. Sound(v)
    BY <1>1, <1>2 DEF Sound
<1>4. EngineOnly(w, v)
    BY <1>1, <1>2, <1>3 DEF EngineOnly
<1> QED BY <1>4 DEF v

LEMMA InitializeResults ==
    ASSUME NEW w, Sound(w), NEW v \in InitializeRime(w)
    PROVE  EngineOnly(w, v)
<1>1. v = w \/ (w.gen < MaxGen /\ v = [w EXCEPT !.ready = TRUE, !.gen = @ + 1])
    BY DEF InitializeRime
<1>2. EngineOnly(w, w)
    BY SoundTypes DEF EngineOnly
<1> QED BY <1>1, <1>2, EngineStarts

LEMMA RestartedResults ==
    ASSUME NEW w, Sound(w), NEW v \in Restarted(w)
    PROVE  EngineOnly(w, v)
<1>1. \/ w.gen < MaxGen /\ v = [w EXCEPT !.ready = TRUE, !.gen = @ + 1]
      \/ w.failures < MaxFailures /\ v = [Failed(w) EXCEPT !.ready = FALSE]
    BY DEF Restarted
<1> QED BY <1>1, EngineStarts, EngineLost

-----------------------------------------------------------------------------
(* While nothing fails.                                                    *)

\* What is composed is the input, in the active context, and counted.
Good(w) ==
  /\ ~w.pending /\ w.comp \in {NoContext, w.active} /\ w.preedit = Len(w.input)
  /\ w.input # <<>> => /\ w.active \in Contexts /\ w.comp = w.active
                       /\ w.doc[w.active].comp = w.input
  /\ PageFits(w)

\* No text is added.
Shorter(w, v) == \A x \in Contexts : IsPrefix(Text(v, x), Text(w, x))

LEMMA TextType ==
    ASSUME NEW w, Sound(w), NEW x \in Contexts
    PROVE  Text(w, x) \in Strings /\ (w.comp # x => Text(w, x) = w.doc[x].text)
<1>1. /\ w.doc[x].text \in Strings /\ w.doc[x].comp \in Strings
      /\ (w.comp # x => w.doc[x].comp = <<>>)
    BY SoundTypes DEF Sound
<1>2. w.doc[x].text \o w.doc[x].comp \in Strings
    BY <1>1, PrefixOfLonger DEF Strings
<1>3. w.doc[x].text \o <<>> = w.doc[x].text
    BY <1>1, ConcatEmptySeq DEF Strings
<1> QED BY <1>1, <1>2, <1>3 DEF Text

LEMMA SameTextIsShorter ==
    ASSUME NEW w, NEW v, Sound(w), \A x \in Contexts : Text(v, x) = Text(w, x)
    PROVE  Shorter(w, v)
BY TextType, PrefixOfItself DEF Shorter, Strings

LEMMA ShorterTwice ==
    ASSUME NEW w, NEW v, NEW u, Sound(w), Sound(v), Sound(u), Shorter(w, v), Shorter(v, u)
    PROVE  Shorter(w, u)
<1> SUFFICES ASSUME NEW x \in Contexts
             PROVE  IsPrefix(Text(u, x), Text(w, x))
    BY DEF Shorter
<1>1. Text(u, x) \in Strings /\ Text(v, x) \in Strings /\ Text(w, x) \in Strings
    BY TextType
<1> QED BY <1>1, PrefixOfPrefix DEF Shorter, Strings

\* A composition that was dropped, with the text it showed.
LEMMA DroppedIsShorter ==
    ASSUME NEW w, NEW v, Sound(w), Sound(v), v.comp = NoContext,
           \A x \in Contexts : v.doc[x].text = w.doc[x].text
    PROVE  Shorter(w, v)
<1> SUFFICES ASSUME NEW x \in Contexts
             PROVE  IsPrefix(Text(v, x), Text(w, x))
    BY DEF Shorter
<1>1. Text(v, x) = w.doc[x].text
    BY TextType, TextAssumption
<1>2. w.doc[x].text \in Strings /\ w.doc[x].comp \in Strings
    BY SoundTypes
<1> QED BY <1>1, <1>2, PrefixOfLonger DEF Text, Strings

LEMMA EngineKeepsGood ==
    ASSUME NEW w, NEW v, Sound(w), EngineOnly(w, v)
    PROVE  /\ Proceeds(w, v) /\ Kept(w, v) /\ Shorter(w, v)
           /\ v.failures = 0 /\ Good(w) => Good(v)
<1>1. Proceeds(w, v)
    BY SoundTypes DEF Proceeds, EngineOnly
<1>2. Kept(w, v)
    BY SameIsKept DEF EngineOnly
<1>3. Shorter(w, v)
  <2>1. \A x \in Contexts : Text(v, x) = Text(w, x)
      BY DEF EngineOnly, Text
  <2> QED BY <2>1, SameTextIsShorter
<1>4. v.failures = 0 /\ Good(w) => Good(v)
    BY DEF EngineOnly, Good, PageFits
<1> QED BY <1>1, <1>2, <1>3, <1>4

LEMMA PageKeepsGood ==
    ASSUME NEW w, NEW v, Sound(w), OnlyPage(w, v)
    PROVE  Proceeds(w, v) /\ Kept(w, v) /\ Shorter(w, v)
<1>1. Proceeds(w, v)
    BY SoundTypes DEF Proceeds, OnlyPage
<1>2. Kept(w, v)
    BY SameIsKept DEF OnlyPage
<1>3. Shorter(w, v)
  <2>1. \A x \in Contexts : Text(v, x) = Text(w, x)
      BY DEF OnlyPage, Text
  <2> QED BY <2>1, SameTextIsShorter
<1> QED BY <1>1, <1>2, <1>3

LEMMA ClearedIsGood ==
    ASSUME NEW u, NEW v, Sound(u), Cleared(u, v), v.comp \in {NoContext, v.active}
    PROVE  Good(v)
BY EmptyText DEF Cleared, Good, PageFits, NoPage

LEMMA EnteredResults ==
    ASSUME NEW w, Sound(w), NEW c \in Contexts, NEW v \in Entered(w, c)
    PROVE  /\ Sound(v) /\ v.active = c /\ Len(v.input) <= Len(w.input)
           /\ w.failures <= v.failures /\ Kept(w, v)
           /\ w.active = c => v = w
           /\ v.failures = 0 /\ Good(w) => Good(v) /\ Shorter(w, v)
<1>0. Len(w.input) \in Nat /\ w.failures \in Nat /\ w.preedit \in Nat /\ Len(<<>>) = 0
    BY SoundTypes, EmptyText
<1>1. CASE w.active = c
  <2>1. v = w
      BY <1>1 DEF Entered
  <2>2. Kept(w, w) /\ Shorter(w, w)
      BY SameIsKept, SameTextIsShorter
  <2> QED BY <1>0, <1>1, <2>1, <2>2
<1>2. CASE w.active # c
  <2>1. PICK u \in IF IsComposing(w) THEN {r.w : r \in CancelComposition(w, w.active)} ELSE {w} :
               v = [u EXCEPT !.active = c]
      BY <1>2 DEF Entered
  <2>2. /\ Sound(u) /\ u.input = <<>> /\ u.preedit = 0 /\ w.failures <= u.failures
        /\ Kept(w, u)
        /\ u.failures = 0 /\ Good(w) =>
             ~u.pending /\ u.comp = NoContext /\ PageFits(u)
             /\ \A x \in Contexts : u.doc[x].text = w.doc[x].text
    <3>1. CASE IsComposing(w)
      <4>1. PICK r \in CancelComposition(w, w.active) : u = r.w
          BY <2>1, <3>1
      <4>2. /\ Proceeds(w, u) /\ Kept(w, u)
            /\ \E z : Sound(z) /\ Cleared(z, u)
            /\ u.failures = 0 /\ w.comp \in {NoContext, w.active} =>
                 u.comp = NoContext /\ \A x \in Contexts : u.doc[x].text = w.doc[x].text
          BY <4>1, CancelResults
      <4>3. u.input = <<>> /\ u.preedit = 0 /\ ~u.pending /\ PageFits(u)
          BY <4>2 DEF Cleared, PageFits, NoPage
      <4> QED BY <4>2, <4>3 DEF Proceeds, Good
    <3>2. CASE ~IsComposing(w)
      <4>1. u = w /\ w.input = <<>> /\ w.comp = NoContext /\ ~(w.preedit > 0)
          BY <2>1, <3>2 DEF IsComposing
      <4>2. w.preedit = 0
          BY <1>0, <4>1
      <4> QED BY <1>0, <4>1, <4>2, SameIsKept DEF Good
    <3> QED BY <3>1, <3>2
  <2>3. /\ v \in States /\ v.active = c /\ v.doc = u.doc /\ v.comp = u.comp /\ v.input = u.input
        /\ v.preedit = u.preedit /\ v.pending = u.pending /\ v.shown = u.shown /\ v.last = u.last
        /\ v.ready = u.ready /\ v.gen = u.gen /\ v.failures = u.failures
    <3>1. u \in States /\ c \in Fields
        BY <2>2 DEF Sound, Fields
    <3> QED BY <2>1, <3>1 DEF States
  <2>4. Sound(v)
      BY <2>2, <2>3 DEF Sound
  <2>5. Kept(u, v)
    <3>1. \A x \in Contexts : IsPrefix(u.doc[x].text, v.doc[x].text)
        BY <2>2, <2>3, TextUnchanged
    <3> QED BY <2>2, <2>3, <2>4, <3>1, GrownIsKept
  <2>6. Kept(w, v)
      BY <2>2, <2>4, <2>5, KeptTwice
  <2>7. ASSUME v.failures = 0, Good(w)
        PROVE  Good(v) /\ Shorter(w, v)
    <3>1. /\ ~u.pending /\ u.comp = NoContext /\ PageFits(u)
          /\ \A x \in Contexts : u.doc[x].text = w.doc[x].text
        BY <2>2, <2>3, <2>7
    <3>2. Good(v)
        BY <1>0, <2>2, <2>3, <3>1 DEF Good, PageFits
    <3>3. Shorter(w, v)
        BY <2>3, <2>4, <3>1, DroppedIsShorter
    <3> QED BY <3>2, <3>3
  <2> QED BY <1>0, <1>2, <2>2, <2>3, <2>4, <2>6, <2>7
<1> QED BY <1>1, <1>2

-----------------------------------------------------------------------------
(* A choice for a part of the input.                                       *)

\* What a try to go on with the rest leaves: nothing changed, or the text was
\* committed and the rest is composed, or not.
Tried(w, c, text, rest, r) ==
  LET u == r.w IN
  /\ Sound(u) /\ u.active = w.active /\ u.input = w.input /\ w.failures <= u.failures
  /\ u.failures = 0 /\ w.comp = c =>
       /\ r.ok = TRUE /\ u.comp = c /\ u.doc[c].text = w.doc[c].text \o text
       /\ u.doc[c].comp = rest /\ \A x \in Contexts \ {c} : u.doc[x] = w.doc[x]
  /\ \/ u.doc = w.doc /\ u.comp = w.comp /\ u.preedit = w.preedit
     \/ /\ w.active = c => SettledIn(w, u.doc)
        /\ \/ u.comp = NoContext
           \/ u.comp = c /\ u.doc[c].comp = rest
        /\ w.comp = NoContext => u.preedit = 0
        /\ w.comp # NoContext => u.doc # w.doc

LEMMA BegunResult ==
    ASSUME NEW w, Sound(w)
    PROVE  LET b == [w EXCEPT !.pending = TRUE]
           IN /\ Sound(b) /\ b.doc = w.doc /\ b.comp = w.comp /\ b.active = w.active
              /\ b.input = w.input /\ b.preedit = w.preedit /\ b.failures = w.failures
<1> DEFINE b == [w EXCEPT !.pending = TRUE]
<1>1. w \in States
    BY DEF Sound
<1>2. /\ b \in States /\ b.doc = w.doc /\ b.comp = w.comp /\ b.active = w.active
      /\ b.input = w.input /\ b.preedit = w.preedit /\ b.failures = w.failures
      /\ b.shown = w.shown /\ b.gen = w.gen
    BY <1>1 DEF States
<1> HIDE DEF b
<1>3. Sound(b)
    BY <1>2 DEF Sound
<1> QED BY <1>2, <1>3 DEF b

\* With a composition in c.
LEMMA CommittedAndTried ==
    ASSUME NEW w, Sound(w), NEW c \in Contexts, w.comp = c, NEW text \in Strings, text # <<>>,
           NEW rest \in Strings,
           NEW b, Sound(b), b.doc = w.doc, b.comp = w.comp, b.active = w.active,
           b.input = w.input, b.preedit = w.preedit, b.failures = w.failures,
           NEW q \in RequestCommitAndRestart(b, c, text, rest),
           NEW r \in IF q.ok \/ q.w.comp # NoContext THEN {q} ELSE RequestUpdate(q.w, c, rest)
    PROVE  Tried(w, c, text, rest, r)
<1>1. w.failures \in Nat /\ c # NoContext /\ w.doc[c].text \in Strings
    BY SoundTypes, TextAssumption
<1>2. ASSUME NEW d, d[c].text = w.doc[c].text \o text, \A x \in Contexts \ {c} : d[x] = w.doc[x]
      PROVE  SettledIn(w, d) /\ d # w.doc
  <2>1. SettledIn(w, d)
      BY <1>2, GrownIsSettled
  <2>2. w.doc[c].text \o text # w.doc[c].text
      BY <1>1, ConcatEqualIffEmpty DEF Strings
  <2> QED BY <1>2, <2>1, <2>2
<1>3. CASE q.ok = TRUE /\ Edited(b, c, c, b.doc[c].text \o text, rest, q.w)
  <2>1. r = q
      BY <1>3
  <2>2. /\ Sound(r.w) /\ r.w.active = w.active /\ r.w.input = w.input /\ w.failures = r.w.failures
        /\ r.w.comp = c /\ r.w.doc[c].text = w.doc[c].text \o text /\ r.w.doc[c].comp = rest
        /\ \A x \in Contexts \ {c} : r.w.doc[x] = w.doc[x]
      BY <1>3, <2>1 DEF Edited, SameService
  <2>3. SettledIn(w, r.w.doc) /\ r.w.doc # w.doc
      BY <1>2, <2>2
  <2> QED BY <1>1, <1>3, <2>1, <2>2, <2>3 DEF Tried
<1>4. CASE q.ok = FALSE /\ OneFailure(b, q.w)
  <2>1. q.w.comp = c
      BY <1>4 DEF OneFailure
  <2>2. r = q
      BY <1>1, <1>4, <2>1
  <2>3. /\ Sound(r.w) /\ r.w.active = w.active /\ r.w.input = w.input
        /\ r.w.failures = w.failures + 1
        /\ r.w.comp = w.comp /\ r.w.doc = w.doc /\ r.w.preedit = w.preedit
      BY <1>4, <2>2 DEF OneFailure, SameService
  <2> QED BY <1>1, <2>3 DEF Tried
<1>5. CASE /\ q.ok = FALSE
           /\ \E m : /\ Edited(b, c, NoContext, b.doc[c].text \o text, <<>>, m)
                     /\ OneFailure(m, q.w)
  <2>1. /\ Sound(q.w) /\ q.w.active = w.active /\ q.w.input = w.input
        /\ q.w.failures = w.failures + 1
        /\ q.w.comp = NoContext /\ q.w.doc[c].text = w.doc[c].text \o text
        /\ \A x \in Contexts \ {c} : q.w.doc[x] = w.doc[x]
      BY <1>5 DEF Edited, OneFailure, SameService
  <2>2. r \in RequestUpdate(q.w, c, rest)
      BY <1>5, <2>1
  <2>3. \/ Edited(q.w, c, c, q.w.doc[c].text, rest, r.w)
        \/ OneFailure(q.w, r.w)
      BY <2>1, <2>2, UpdateResults
  <2>4. /\ Sound(r.w) /\ r.w.active = w.active /\ r.w.input = w.input
        /\ w.failures + 1 <= r.w.failures
        /\ r.w.doc[c].text = w.doc[c].text \o text
        /\ \A x \in Contexts \ {c} : r.w.doc[x] = w.doc[x]
        /\ r.w.comp = NoContext \/ (r.w.comp = c /\ r.w.doc[c].comp = rest)
    <3>1. CASE Edited(q.w, c, c, q.w.doc[c].text, rest, r.w)
        BY <1>1, <2>1, <3>1 DEF Edited, SameService
    <3>2. CASE OneFailure(q.w, r.w)
        BY <1>1, <2>1, <3>2 DEF OneFailure, SameService
    <3> QED BY <2>3, <3>1, <3>2
  <2>5. SettledIn(w, r.w.doc) /\ r.w.doc # w.doc
      BY <1>2, <2>4
  <2>6. r.w.failures # 0 /\ w.failures <= r.w.failures
    <3>1. r.w.failures \in Nat
        BY <2>4, SoundTypes
    <3> QED BY <1>1, <2>4, <3>1
  <2> QED BY <1>1, <2>4, <2>5, <2>6 DEF Tried
<1>6. \/ b.comp # c /\ q.ok = FALSE /\ q.w = b
      \/ /\ b.comp = c
         /\ \/ q.ok = TRUE /\ Edited(b, c, c, b.doc[c].text \o text, rest, q.w)
            \/ q.ok = FALSE /\ OneFailure(b, q.w)
            \/ /\ q.ok = FALSE
               /\ \E m : /\ Edited(b, c, NoContext, b.doc[c].text \o text, <<>>, m)
                         /\ OneFailure(m, q.w)
    BY CommitAndRestartResults
<1> QED BY <1>3, <1>4, <1>5, <1>6

\* Without one: the preedit is replaced and the rest is composed.
LEMMA ReplacedAndTried ==
    ASSUME NEW w, Sound(w), NEW c \in Contexts, w.comp = NoContext, NEW text \in Strings,
           NEW rest \in Strings,
           NEW b, Sound(b), b.doc = w.doc, b.comp = w.comp, b.active = w.active,
           b.input = w.input, b.preedit = w.preedit, b.failures = w.failures,
           NEW q \in RequestTextReplacement(b, c, w.preedit, text), q.ok,
           NEW f \in RequestUpdate([q.w EXCEPT !.preedit = 0], c, rest),
           NEW r \in IF f.ok \/ f.w.comp # NoContext THEN {f} ELSE RequestUpdate(f.w, c, rest)
    PROVE  Tried(w, c, text, rest, r)
<1>1. w.failures \in Nat /\ c # NoContext /\ w.preedit \in Nat /\ 0 \in 0..MaxLetters
    BY SoundTypes, TextAssumption
<1>2. \E t, p \in Strings : Edited(b, c, b.comp, t, p, q.w) /\ Replaced(b, c, w.preedit, text, t, p)
    BY <1>1, ReplacementResults
<1>3. PICK t \in Strings, p \in Strings :
              Edited(b, c, b.comp, t, p, q.w) /\ Replaced(b, c, w.preedit, text, t, p)
    BY <1>2
<1>4. Replaced(w, c, w.preedit, text, t, p)
    BY <1>3 DEF Replaced
<1> DEFINE m == [q.w EXCEPT !.preedit = 0]
<1>5. /\ Sound(m) /\ m.active = w.active /\ m.input = w.input /\ m.failures = w.failures
      /\ m.comp = NoContext /\ m.preedit = 0 /\ m.doc[c].text = t
      /\ \A x \in Contexts \ {c} : m.doc[x] = w.doc[x]
  <2>1. Sound(q.w)
      BY <1>3 DEF Edited
  <2>2. /\ Sound(m) /\ m.preedit = 0 /\ m.input = q.w.input /\ m.doc = q.w.doc
        /\ m.comp = q.w.comp /\ m.active = q.w.active /\ m.failures = q.w.failures
      BY <1>1, <2>1, NewPreedit
  <2> HIDE DEF m
  <2> QED BY <1>3, <2>2 DEF Edited, SameService
<1>6. f \in RequestUpdate(m, c, rest)
    OBVIOUS
<1> HIDE DEF m
<1>7. \/ f.ok = TRUE /\ Edited(m, c, c, m.doc[c].text, rest, f.w)
      \/ f.ok = FALSE /\ OneFailure(m, f.w)
    BY <1>5, <1>6, UpdateResults
<1>8. /\ Sound(r.w) /\ r.w.active = w.active /\ r.w.input = w.input
      /\ w.failures <= r.w.failures
      /\ r.w.preedit = 0 /\ r.w.doc[c].text = t
      /\ \A x \in Contexts \ {c} : r.w.doc[x] = w.doc[x]
      /\ r.w.comp = NoContext \/ (r.w.comp = c /\ r.w.doc[c].comp = rest)
  <2>1. CASE f.ok = TRUE /\ Edited(m, c, c, m.doc[c].text, rest, f.w)
    <3>1. r = f
        BY <2>1
    <3> QED BY <1>1, <1>5, <2>1, <3>1 DEF Edited, SameService
  <2>2. CASE f.ok = FALSE /\ OneFailure(m, f.w)
    <3>1. Sound(f.w) /\ f.w.comp = NoContext /\ f.w.doc = m.doc /\ f.w.preedit = 0
          /\ f.w.input = w.input /\ f.w.active = w.active /\ f.w.failures = w.failures + 1
        BY <1>5, <2>2 DEF OneFailure, SameService
    <3>2. r \in RequestUpdate(f.w, c, rest)
        BY <2>2, <3>1
    <3>3. \/ Edited(f.w, c, c, f.w.doc[c].text, rest, r.w)
          \/ OneFailure(f.w, r.w)
        BY <3>1, <3>2, UpdateResults
    <3>4. CASE Edited(f.w, c, c, f.w.doc[c].text, rest, r.w)
        BY <1>1, <1>5, <3>1, <3>4 DEF Edited, SameService
    <3>5. CASE OneFailure(f.w, r.w)
        BY <1>1, <1>5, <3>1, <3>5 DEF OneFailure, SameService
    <3> QED BY <3>3, <3>4, <3>5
  <2> QED BY <1>7, <2>1, <2>2
<1>9. w.active = c => SettledIn(w, r.w.doc)
    BY <1>4, <1>8, ReplacedIsSettled
<1>10. w.comp # c
    BY <1>1
<1> QED BY <1>8, <1>9, <1>10 DEF Tried

\* What a try leads to.
Continued(w, rest, r) ==
  IF r.w.doc # w.doc
    THEN RefreshCandidates([r.w EXCEPT !.input = rest, !.last = <<>>, !.pending = ~r.ok,
                              !.preedit = IF r.w.comp # NoContext THEN Len(rest) ELSE 0])
    ELSE {r.w}

LEMMA ContinueTried ==
    ASSUME NEW w, Sound(w), NEW c \in Contexts, NEW text \in Strings, text # <<>>,
           NEW rest \in Words,
           NEW v \in CommitTextAndContinueComposition(w, c, text, rest)
    PROVE  \E r : Tried(w, c, text, rest, r) /\ v \in Continued(w, rest, r)
<1> DEFINE b == [w EXCEPT !.pending = TRUE]
           Again(r) == IF r.ok \/ r.w.comp # NoContext THEN {r} ELSE RequestUpdate(r.w, c, rest)
           First(q) == IF q.ok THEN RequestUpdate([q.w EXCEPT !.preedit = 0], c, rest) ELSE {}
           replaced == RequestTextReplacement(b, c, w.preedit, text)
           tries == IF w.comp # NoContext
                      THEN UNION {Again(r) : r \in RequestCommitAndRestart(b, c, text, rest)}
                      ELSE (UNION {Again(r) : r \in UNION {First(q) : q \in replaced}})
                             \cup {q \in replaced : ~q.ok}
<1>1. PICK r \in tries : v \in Continued(w, rest, r)
    BY DEF CommitTextAndContinueComposition, Continued
<1> SUFFICES Tried(w, c, text, rest, r)
    BY <1>1
<1>2. /\ Sound(b) /\ b.doc = w.doc /\ b.comp = w.comp /\ b.active = w.active
      /\ b.input = w.input /\ b.preedit = w.preedit /\ b.failures = w.failures
    BY BegunResult
<1> HIDE DEF b
<1>3. rest \in Strings /\ w.failures \in Nat /\ w.preedit \in Nat
    BY LettersAreText, SoundTypes
<1>4. CASE w.comp # NoContext
  <2>1. PICK q \in RequestCommitAndRestart(b, c, text, rest) : r \in Again(q)
      BY <1>1, <1>4
  <2>2. CASE w.comp = c
      BY <1>2, <1>3, <2>1, <2>2, CommittedAndTried
  <2>3. CASE w.comp # c
    <3>1. q.ok = FALSE /\ q.w = b
        BY <1>2, <1>3, <2>3, CommitAndRestartResults
    <3>2. r = q
        BY <1>2, <1>4, <2>1, <3>1
    <3> QED BY <1>2, <1>3, <2>3, <3>1, <3>2 DEF Tried
  <2> QED BY <2>2, <2>3
<1>5. CASE w.comp = NoContext
  <2>1. c # NoContext
      BY TextAssumption
  <2>2. CASE r \in replaced /\ ~r.ok
    <3>1. OneFailure(b, r.w)
        BY <1>2, <1>3, <2>2, ReplacementResults
    <3> QED BY <1>2, <1>3, <1>5, <2>1, <3>1 DEF Tried, OneFailure, SameService
  <2>3. CASE ~(r \in replaced /\ ~r.ok)
    <3>1. r \in UNION {Again(f) : f \in UNION {First(q) : q \in replaced}}
      <4> HIDE DEF Again, First, replaced
      <4>1. r \in (UNION {Again(f) : f \in UNION {First(q) : q \in replaced}})
                  \cup {q \in replaced : ~q.ok}
          BY <1>1, <1>5
      <4> QED BY <2>3, <4>1
    <3>2. PICK f \in UNION {First(q) : q \in replaced} : r \in Again(f)
        BY <3>1
    <3>3. PICK q \in replaced : f \in First(q)
        BY <3>2
    <3>4. q.ok /\ f \in RequestUpdate([q.w EXCEPT !.preedit = 0], c, rest)
        BY <3>3
    <3> QED BY <1>2, <1>3, <1>5, <3>2, <3>4, ReplacedAndTried
  <2> QED BY <2>2, <2>3
<1> QED BY <1>4, <1>5

LEMMA ContinueResults ==
    ASSUME NEW w, Sound(w), NEW c \in Contexts, NEW text \in Strings, text # <<>>,
           NEW rest \in Words, rest # <<>>, w.input = rest, Len(rest) <= MaxLetters,
           NEW v \in CommitTextAndContinueComposition(w, c, text, rest)
    PROVE  /\ Proceeds(w, v)
           /\ w.active = c => Kept(w, v)
           /\ v.failures = 0 /\ w.comp = c =>
                /\ v.comp = c /\ v.doc[c].text = w.doc[c].text \o text /\ v.doc[c].comp = rest
                /\ \A x \in Contexts \ {c} : v.doc[x] = w.doc[x]
                /\ v.input = rest /\ v.preedit = Len(rest) /\ ~v.pending /\ PageFits(v)
<1>1. PICK r : Tried(w, c, text, rest, r) /\ v \in Continued(w, rest, r)
    BY ContinueTried
<1> DEFINE u == r.w
           n == IF u.comp # NoContext THEN Len(rest) ELSE 0
           y == [u EXCEPT !.input = rest, !.last = <<>>, !.pending = ~r.ok, !.preedit = n]
<1>2. /\ Sound(u) /\ u.active = w.active /\ u.input = w.input /\ w.failures <= u.failures
      /\ w.failures \in Nat /\ Len(rest) \in Nat /\ n \in 0..MaxLetters /\ c # NoContext
      /\ (w.comp # c => w.doc[c].comp = <<>>)
  <2>1. Sound(u) /\ u.active = w.active /\ u.input = w.input /\ w.failures <= u.failures
      BY <1>1 DEF Tried
  <2>2. Len(rest) \in Nat
      BY LenProperties DEF Words
  <2>3. w.failures \in Nat /\ c # NoContext /\ n \in 0..MaxLetters
      BY <2>2, SoundTypes, TextAssumption
  <2> QED BY <2>1, <2>2, <2>3 DEF Sound
<1>3. \/ u.doc = w.doc /\ u.comp = w.comp /\ u.preedit = w.preedit
      \/ /\ w.active = c => SettledIn(w, u.doc)
         /\ u.comp = NoContext \/ (u.comp = c /\ u.doc[c].comp = rest)
         /\ w.comp = NoContext => u.preedit = 0
         /\ w.comp # NoContext => u.doc # w.doc
    BY <1>1 DEF Tried
<1>4. u.failures = 0 /\ w.comp = c =>
        /\ r.ok = TRUE /\ u.comp = c /\ u.doc[c].text = w.doc[c].text \o text
        /\ u.doc[c].comp = rest /\ \A x \in Contexts \ {c} : u.doc[x] = w.doc[x]
    BY <1>1 DEF Tried
<1>5. CASE u.doc # w.doc
  <2>1. v \in RefreshCandidates(y)
      BY <1>1, <1>5 DEF Continued
  <2>2. /\ Sound(y) /\ y.doc = u.doc /\ y.comp = u.comp /\ y.active = u.active
        /\ y.input = rest /\ y.preedit = n /\ y.pending = ~r.ok /\ y.last = <<>>
        /\ y.failures = u.failures
    <3> HIDE DEF u, n
    <3>1. u \in States
        BY <1>2 DEF Sound
    <3>2. <<>> \in Words /\ (~r.ok) \in BOOLEAN
        BY EmptyText
    <3>3. /\ y \in States /\ y.doc = u.doc /\ y.comp = u.comp /\ y.active = u.active
          /\ y.input = rest /\ y.preedit = n /\ y.pending = ~r.ok /\ y.last = <<>>
          /\ y.failures = u.failures /\ y.shown = u.shown /\ y.gen = u.gen
        BY <1>2, <3>1, <3>2 DEF States
    <3> HIDE DEF y
    <3>4. Sound(y)
        BY <1>2, <3>3 DEF Sound
    <3> QED BY <3>3, <3>4
  <2> HIDE DEF y
  <2>3. OnlyPage(y, v) /\ PageFits(v)
      BY <2>1, <2>2, RefreshResults
  <2> HIDE DEF u
  <2>4. /\ Sound(v) /\ v.doc = u.doc /\ v.comp = u.comp /\ v.active = w.active
        /\ v.input = rest /\ v.preedit = n /\ v.pending = ~r.ok /\ v.failures = u.failures
      BY <1>2, <2>2, <2>3 DEF OnlyPage
  <2>5. Proceeds(w, v)
      BY <1>2, <2>4 DEF Proceeds
  <2>6. ASSUME w.active = c
        PROVE  Kept(w, v)
    <3>1. SettledIn(w, v.doc) /\ (u.comp = NoContext \/ (u.comp = c /\ u.doc[c].comp = rest))
        BY <1>3, <1>5, <2>4, <2>6
    <3>2. \/ v.preedit = 0
          \/ v.active \in Contexts /\ v.comp = v.active /\ v.preedit <= Len(v.doc[v.active].comp)
        BY <1>2, <2>4, <2>6, <3>1
    <3> QED BY <2>4, <3>1, <3>2, SettledInIsKept
  <2>7. ASSUME v.failures = 0, w.comp = c
        PROVE  /\ v.comp = c /\ v.doc[c].text = w.doc[c].text \o text /\ v.doc[c].comp = rest
               /\ \A x \in Contexts \ {c} : v.doc[x] = w.doc[x]
               /\ v.input = rest /\ v.preedit = Len(rest) /\ ~v.pending /\ PageFits(v)
      BY <1>2, <1>4, <2>3, <2>4, <2>7
  <2> QED BY <2>5, <2>6, <2>7
<1>6. CASE u.doc = w.doc
  <2>1. v = u
      BY <1>1, <1>6 DEF Continued
  <2> HIDE DEF u
  <2>2. Proceeds(w, v)
      BY <1>2, <2>1 DEF Proceeds
  <2>3. ASSUME w.active = c
        PROVE  Kept(w, v)
    <3>1. CASE u.comp = w.comp /\ u.preedit = w.preedit
        BY <1>2, <1>6, <2>1, <3>1, SameIsKept
    <3>2. CASE ~(u.comp = w.comp /\ u.preedit = w.preedit)
      <4>1. SettledIn(w, v.doc) /\ v.preedit = 0
          BY <1>3, <1>6, <2>1, <2>3, <3>2
      <4> QED BY <1>2, <2>1, <4>1, SettledInIsKept
    <3> QED BY <3>1, <3>2
  <2>4. ASSUME v.failures = 0, w.comp = c
        PROVE  FALSE
    <3>1. u.doc[c].text = w.doc[c].text \o text
        BY <1>4, <2>1, <2>4
    <3>2. w.doc[c].text \o text # w.doc[c].text
        BY SoundTypes, ConcatEqualIffEmpty DEF Strings
    <3> QED BY <1>6, <3>1, <3>2
  <2> QED BY <2>2, <2>3, <2>4
<1> QED BY <1>5, <1>6

LEMMA PrefixAfter ==
    ASSUME NEW S, NEW s \in Seq(S), NEW t \in Seq(S), NEW u \in Seq(S), IsPrefix(s, t)
    PROVE  IsPrefix(u \o s, u \o t)
<1>1. Len(s) \in Nat /\ Len(t) \in Nat /\ Len(u) \in Nat
    BY LenProperties
<1>2. Len(s) <= Len(t) /\ \A i \in 1 .. Len(s) : s[i] = t[i]
    BY PrefixByLetter
<1>3. /\ u \o s \in Seq(S) /\ Len(u \o s) = Len(u) + Len(s)
      /\ \A i \in 1 .. Len(u) + Len(s) :
            (u \o s)[i] = IF i <= Len(u) THEN u[i] ELSE s[i - Len(u)]
    BY ConcatProperties
<1>4. /\ u \o t \in Seq(S) /\ Len(u \o t) = Len(u) + Len(t)
      /\ \A i \in 1 .. Len(u) + Len(t) :
            (u \o t)[i] = IF i <= Len(u) THEN u[i] ELSE t[i - Len(u)]
    BY ConcatProperties
<1>5. ASSUME NEW i \in 1 .. Len(u \o s)
      PROVE  (u \o s)[i] = (u \o t)[i]
  <2>1. i \in 1 .. Len(u) + Len(s) /\ i \in 1 .. Len(u) + Len(t)
      BY <1>1, <1>2, <1>3
  <2>2. CASE i <= Len(u)
      BY <1>3, <1>4, <2>1, <2>2
  <2>3. CASE ~(i <= Len(u))
    <3>1. i - Len(u) \in 1 .. Len(s)
        BY <1>1, <2>1, <2>3
    <3> QED BY <1>2, <1>3, <1>4, <2>1, <2>3, <3>1
  <2> QED BY <2>2, <2>3
<1>6. Len(u \o s) <= Len(u \o t)
    BY <1>1, <1>2, <1>3, <1>4
<1> QED BY <1>3, <1>4, <1>5, <1>6, PrefixByLetter

LEMMA Associative ==
    ASSUME NEW s \in Strings, NEW t \in Strings, NEW u \in Strings
    PROVE  (s \o t) \o u = s \o (t \o u)
BY ConcatAssociative DEF Strings

\* What is committed is what was composed, or the beginning of it.
LEMMA CommitKeepsGood ==
    ASSUME NEW w, Sound(w), NEW c \in Contexts, w.comp = c, w.active = c,
           NEW text \in Strings, IsPrefix(text, w.doc[c].comp),
           NEW r \in CommitText(w, c, text), r.w.failures = 0
    PROVE  /\ Good(r.w) /\ Shorter(w, r.w)
           /\ text = w.doc[c].comp => \A x \in Contexts : Text(r.w, x) = Text(w, x)
<1>1. PICK u : Edited(w, c, NoContext, w.doc[c].text \o text, <<>>, u) /\ Cleared(u, r.w)
    BY CommitTextResults
<1>2. /\ Sound(u) /\ Sound(r.w) /\ r.w.comp = NoContext /\ r.w.doc[c].text = w.doc[c].text \o text
      /\ \A x \in Contexts \ {c} : r.w.doc[x] = w.doc[x]
    BY <1>1 DEF Edited, Cleared
<1>3. Good(r.w)
    BY <1>1, <1>2, ClearedIsGood
<1>4. Text(r.w, c) = w.doc[c].text \o text
    BY <1>2, TextType, TextAssumption
<1>5. w.doc[c].text \in Strings /\ w.doc[c].comp \in Strings
    BY SoundTypes
<1>6. \A x \in Contexts \ {c} : Text(r.w, x) = Text(w, x)
    BY <1>2 DEF Text
<1>7. Shorter(w, r.w)
  <2>1. IsPrefix(Text(r.w, c), Text(w, c))
      BY <1>4, <1>5, PrefixAfter DEF Text, Strings
  <2>2. \A x \in Contexts \ {c} : IsPrefix(Text(r.w, x), Text(w, x))
      BY <1>6, TextType, PrefixOfItself DEF Strings
  <2> QED BY <2>1, <2>2 DEF Shorter
<1>8. text = w.doc[c].comp => Text(r.w, c) = Text(w, c)
    BY <1>4 DEF Text
<1> QED BY <1>3, <1>6, <1>7, <1>8

LEMMA NewInput ==
    ASSUME NEW w, Sound(w), NEW s \in Words
    PROVE  LET v == [w EXCEPT !.input = s]
           IN /\ Sound(v) /\ Kept(w, v) /\ v.input = s /\ v.failures = w.failures
              /\ v.doc = w.doc /\ v.comp = w.comp /\ v.active = w.active
              /\ v.shown = w.shown /\ v.last = w.last /\ v.ready = w.ready
              /\ v.pending = w.pending /\ v.preedit = w.preedit
<1> DEFINE v == [w EXCEPT !.input = s]
<1>1. w \in States /\ w.failures \in Nat
    BY SoundTypes DEF Sound
<1>2. /\ v \in States /\ v.input = s /\ v.failures = w.failures
      /\ v.doc = w.doc /\ v.comp = w.comp /\ v.active = w.active
      /\ v.shown = w.shown /\ v.last = w.last /\ v.ready = w.ready
      /\ v.pending = w.pending /\ v.preedit = w.preedit /\ v.gen = w.gen
    BY <1>1 DEF States
<1> HIDE DEF v
<1>3. Sound(v)
    BY <1>2 DEF Sound
<1>4. Kept(w, v)
    BY <1>2, SameIsKept
<1> QED BY <1>2, <1>3, <1>4 DEF v

LEMMA ShortenedInput ==
    ASSUME NEW w, Sound(w), NEW s \in Words, Len(s) <= Len(w.input)
    PROVE  LET v == [w EXCEPT !.input = s]
           IN /\ Proceeds(w, v) /\ Kept(w, v) /\ v.input = s /\ v.failures = w.failures
              /\ v.doc = w.doc /\ v.comp = w.comp /\ v.active = w.active
              /\ v.shown = w.shown /\ v.last = w.last /\ v.ready = w.ready
              /\ v.pending = w.pending /\ v.preedit = w.preedit
<1> DEFINE v == [w EXCEPT !.input = s]
<1>1. /\ Sound(v) /\ Kept(w, v) /\ v.input = s /\ v.failures = w.failures
      /\ v.doc = w.doc /\ v.comp = w.comp /\ v.active = w.active
      /\ v.shown = w.shown /\ v.last = w.last /\ v.ready = w.ready
      /\ v.pending = w.pending /\ v.preedit = w.preedit
    BY NewInput
<1> HIDE DEF v
<1>2. Proceeds(w, v)
    BY <1>1, SoundTypes DEF Proceeds
<1> QED BY <1>1, <1>2 DEF v

LEMMA CommitCandidateResults ==
    ASSUME NEW w, Sound(w), NEW c \in Contexts, Len(w.input) <= MaxLetters,
           NEW k \in 1 .. Len(w.shown.of), NEW v \in CommitCandidate(w, c, k)
    PROVE  /\ Proceeds(w, v)
           /\ w.active = c => Kept(w, v)
           /\ v.failures = 0 /\ Good(w) /\ w.comp = c /\ w.active = c =>
                Good(v) /\ \A x \in Contexts : Text(v, x) = Text(w, x)
<1> DEFINE First_(j) == SubSeq(w.input, 1, j)
           Rest_(j) == SubSeq(w.input, j + 1, Len(w.input))
           Chosen(j) == IF j = Len(w.input)
                          THEN {r.w : r \in CommitText(w, c, w.input)}
                          ELSE CommitTextAndContinueComposition([w EXCEPT !.input = Rest_(j)], c,
                                 First_(j), Rest_(j))
           Unanswered(z) == {r.w : r \in CommitText(z, c, SubSeq(w.shown.of, 1, k))}
<1>1. v \in (UNION {Chosen(j) : j \in Choices(w, k)})
              \cup (IF Choices(w, k) = {} THEN Unanswered(w)
                    ELSE IF w.failures < MaxFailures THEN Unanswered(Failed(w)) ELSE {})
  <2>1. w \in States
      BY DEF Sound
  <2>2. [w EXCEPT !.input = SubSeq(@, 1, Len(@))] = [w EXCEPT !.input = SubSeq(w.input, 1, Len(w.input))]
      BY <2>1 DEF States
  <2>3. \A j : [w EXCEPT !.input = SubSeq(@, j + 1, Len(@))] = [w EXCEPT !.input = Rest_(j)]
      BY <2>1 DEF States
  <2> QED BY <2>3 DEF CommitCandidate
<1>2. /\ w.input \in Words /\ Len(w.input) \in Nat /\ w.failures \in Nat /\ w.shown.of \in Words
      /\ w.input \in Strings /\ w.shown.of \in Strings
      /\ Len(w.shown.of) \in Nat /\ w.shown.of # <<>>
  <2>1. w.input \in Words /\ Len(w.input) \in Nat /\ w.failures \in Nat /\ w.shown.of \in Words
      BY SoundTypes
  <2>2. Len(w.shown.of) \in Nat
      BY <2>1, LenProperties DEF Words
  <2>3. w.shown.of # <<>>
      BY <2>2, EmptyText
  <2> QED BY <2>1, <2>2, <2>3, LettersAreText
<1>3. ASSUME Good(w), w.comp = c
      PROVE  w.input = w.shown.of /\ w.input # <<>> /\ w.ready /\ w.doc[c].comp = w.input
    BY <1>2, <1>3 DEF Good, PageFits
<1>4. SubSeq(w.shown.of, 1, k) \in Strings
  <2>1. k \in 0 .. Len(w.shown.of)
      BY <1>2
  <2> QED BY <1>2, <2>1, CutAt DEF Strings
<1>5. \A j \in Choices(w, k) : j \in 1 .. Len(w.input)
  <2> SUFFICES ASSUME NEW j \in Choices(w, k)
               PROVE  j \in 1 .. Len(w.input)
      OBVIOUS
  <2>1. CASE w.shown = [of |-> w.input, gen |-> w.gen]
    <3>1. w.shown.of = w.input
        BY <2>1
    <3>2. j = k
        BY <2>1 DEF Choices
    <3> QED BY <3>1, <3>2
  <2>2. CASE w.shown # [of |-> w.input, gen |-> w.gen]
      BY <2>2 DEF Choices
  <2> QED BY <2>1, <2>2
<1>6. ASSUME NEW j \in Choices(w, k), v \in Chosen(j)
      PROVE  /\ Proceeds(w, v)
             /\ w.active = c => Kept(w, v)
             /\ v.failures = 0 /\ Good(w) /\ w.comp = c /\ w.active = c =>
                  Good(v) /\ \A x \in Contexts : Text(v, x) = Text(w, x)
  <2>0. j \in 1 .. Len(w.input)
      BY <1>5, <1>6
  <2>1. CASE j = Len(w.input)
    <3>1. PICK r \in CommitText(w, c, w.input) : v = r.w
        BY <1>6, <2>1
    <3>2. Proceeds(w, v) /\ (w.active = c => Kept(w, v))
        BY <1>2, <3>1, CommitTextResults
    <3>3. ASSUME v.failures = 0, Good(w), w.comp = c, w.active = c
          PROVE  Good(v) /\ \A x \in Contexts : Text(v, x) = Text(w, x)
      <4>1. w.doc[c].comp = w.input /\ IsPrefix(w.input, w.doc[c].comp)
          BY <1>2, <1>3, <3>3, PrefixOfItself DEF Strings
      <4> QED BY <1>2, <3>1, <3>3, <4>1, CommitKeepsGood
    <3> QED BY <3>2, <3>3
  <2>2. CASE j # Len(w.input)
    <3> DEFINE f == First_(j)
               g == Rest_(j)
               y == [w EXCEPT !.input = g]
    <3>1. /\ f \in Strings /\ f \in Words /\ f # <<>> /\ g \in Words /\ g \in Strings /\ g # <<>>
          /\ f \o g = w.input /\ Len(g) <= Len(w.input)
      <4>1. /\ f \in Words /\ Len(f) = j /\ g \in Words /\ Len(g) = Len(w.input) - j
            /\ f \o g = w.input
          BY <1>2, <2>0, CutAt DEF Words
      <4> HIDE DEF f, g
      <4>2. f # <<>> /\ g # <<>> /\ Len(g) <= Len(w.input)
          BY <1>2, <2>0, <2>2, <4>1, EmptyText
      <4> QED BY <4>1, <4>2, LettersAreText
    <3>2. v \in CommitTextAndContinueComposition(y, c, f, g)
        BY <1>6, <2>2
    <3> HIDE DEF f, g
    <3>3. /\ Proceeds(w, y) /\ Kept(w, y) /\ y.input = g /\ y.doc = w.doc /\ y.comp = w.comp
          /\ y.active = w.active
        BY <3>1, ShortenedInput
    <3> HIDE DEF y
    <3>4. Sound(y) /\ Len(g) \in Nat /\ Len(g) <= MaxLetters
      <4>1. Len(g) \in Nat
          BY <3>1, LenProperties DEF Words
      <4> QED BY <1>2, <3>1, <3>3, <4>1, TextAssumption DEF Proceeds
    <3>5. /\ Proceeds(y, v)
          /\ y.active = c => Kept(y, v)
          /\ v.failures = 0 /\ y.comp = c =>
               /\ v.comp = c /\ v.doc[c].text = y.doc[c].text \o f /\ v.doc[c].comp = g
               /\ \A x \in Contexts \ {c} : v.doc[x] = y.doc[x]
               /\ v.input = g /\ v.preedit = Len(g) /\ ~v.pending /\ PageFits(v)
      <4>1. Sound(y) /\ f \in Strings /\ f # <<>> /\ g \in Words /\ g # <<>>
            /\ y.input = g /\ Len(g) <= MaxLetters
          BY <3>1, <3>3, <3>4
      <4> QED BY <3>2, <4>1, ContinueResults
    <3>6. Proceeds(w, v)
      <4>1. Len(v.input) \in Nat /\ Len(y.input) \in Nat /\ y.failures \in Nat /\ v.failures \in Nat
          BY <3>4, <3>5, SoundTypes DEF Proceeds
      <4> QED BY <1>2, <3>3, <3>5, <4>1 DEF Proceeds
    <3>7. w.active = c => Kept(w, v)
        BY <3>3, <3>4, <3>5, <3>6, KeptTwice DEF Proceeds
    <3>8. ASSUME v.failures = 0, Good(w), w.comp = c, w.active = c
          PROVE  Good(v) /\ \A x \in Contexts : Text(v, x) = Text(w, x)
      <4>1. /\ v.comp = c /\ v.doc[c].text = w.doc[c].text \o f /\ v.doc[c].comp = g
            /\ \A x \in Contexts \ {c} : v.doc[x] = w.doc[x]
            /\ v.input = g /\ v.preedit = Len(g) /\ ~v.pending /\ PageFits(v) /\ v.active = c
          BY <3>3, <3>5, <3>8 DEF Proceeds
      <4>2. Good(v)
          BY <4>1 DEF Good
      <4>3. Text(v, c) = Text(w, c)
        <5> DEFINE T == w.doc[c].text
        <5>1. T \in Strings /\ w.doc[c].comp = f \o g
            BY <1>3, <3>1, <3>8, SoundTypes
        <5>2. v.doc[c].text = T \o f
            BY <4>1
        <5> HIDE DEF T
        <5>3. (T \o f) \o g = T \o (f \o g)
            BY <3>1, <5>1, Associative
        <5>4. Text(v, c) = (T \o f) \o g
            BY <4>1, <5>2 DEF Text
        <5>5. Text(w, c) = T \o (f \o g)
            BY <5>1 DEF Text, T
        <5> QED BY <5>3, <5>4, <5>5
      <4>4. \A x \in Contexts \ {c} : Text(v, x) = Text(w, x)
          BY <4>1 DEF Text
      <4> QED BY <4>2, <4>3, <4>4
    <3> QED BY <3>6, <3>7, <3>8
  <2> QED BY <2>1, <2>2
<1>7. ASSUME Choices(w, k) = {}, v \in Unanswered(w)
      PROVE  /\ Proceeds(w, v)
             /\ w.active = c => Kept(w, v)
             /\ ~(Good(w) /\ w.comp = c)
  <2>1. PICK r \in CommitText(w, c, SubSeq(w.shown.of, 1, k)) : v = r.w
      BY <1>7
  <2>2. Proceeds(w, v) /\ (w.active = c => Kept(w, v))
      BY <1>4, <2>1, CommitTextResults
  <2>3. ASSUME Good(w), w.comp = c
        PROVE  FALSE
    <3>1. k \in Choices(w, k)
        BY <1>3, <2>3 DEF Choices
    <3> QED BY <1>7, <3>1
  <2> QED BY <2>2, <2>3
<1>8. ASSUME w.failures < MaxFailures, v \in Unanswered(Failed(w))
      PROVE  Proceeds(w, v) /\ (w.active = c => Kept(w, v)) /\ v.failures # 0
  <2> DEFINE y == Failed(w)
  <2>1. PICK r \in CommitText(y, c, SubSeq(w.shown.of, 1, k)) : v = r.w
      BY <1>8
  <2>2. OneFailure(w, y)
      BY <1>8, FailureKeepsSound
  <2> HIDE DEF y
  <2>3. OnlyFailures(w, y) /\ y.failures # 0 /\ Sound(y)
      BY <2>2, OneFailureOnly DEF OneFailure
  <2>4. Proceeds(w, y) /\ Kept(w, y)
      BY <2>3, FailuresProceed
  <2>5. Proceeds(y, v) /\ (y.active = c => Kept(y, v))
      BY <1>4, <2>1, <2>3, CommitTextResults
  <2>6. Len(v.input) \in Nat /\ Len(y.input) \in Nat /\ y.failures \in Nat /\ v.failures \in Nat
      BY <2>3, <2>5, SoundTypes DEF Proceeds
  <2>7. Proceeds(w, v) /\ v.failures # 0
      BY <1>2, <2>3, <2>4, <2>5, <2>6 DEF Proceeds
  <2>8. w.active = c => Kept(w, v)
      BY <2>3, <2>4, <2>5, <2>7, KeptTwice DEF Proceeds
  <2> QED BY <2>7, <2>8
<1> HIDE DEF Chosen, Unanswered
<1>9. \/ \E j \in Choices(w, k) : v \in Chosen(j)
      \/ Choices(w, k) = {} /\ v \in Unanswered(w)
      \/ w.failures < MaxFailures /\ v \in Unanswered(Failed(w))
    BY <1>1
<1> QED BY <1>6, <1>7, <1>8, <1>9

-----------------------------------------------------------------------------
(* What every action but that of a letter does.                            *)

\* What is composed is still the input, and counted.
Astray(w, v) ==
  /\ Sound(v) /\ Len(v.input) <= Len(w.input) /\ w.failures <= v.failures
  /\ v.failures = 0 /\ Good(w) => Good(v)
  /\ Measured(w) => Measured(v)

\* And no text is removed but the preedit, and none is added.
Harmless(w, v) ==
  /\ Sound(v) /\ Len(v.input) <= Len(w.input) /\ w.failures <= v.failures
  /\ v.failures = 0 /\ Good(w) => Good(v) /\ Shorter(w, v)
  /\ Kept(w, v)

\* The letters of the input are somewhere.
LettersKept(w, v) ==
  Range(w.input) \subseteq Range(v.input) \cup UNION {Range(Text(v, x)) : x \in Contexts}

LEMMA HarmlessTwice ==
    ASSUME NEW w, NEW v, NEW u, Sound(w), Harmless(w, v), Harmless(v, u)
    PROVE  Harmless(w, u)
<1>1. Sound(v) /\ Sound(u)
    BY DEF Harmless
<1>2. /\ Len(w.input) \in Nat /\ Len(v.input) \in Nat /\ Len(u.input) \in Nat
      /\ w.failures \in Nat /\ v.failures \in Nat /\ u.failures \in Nat
    BY <1>1, SoundTypes
<1>3. Len(u.input) <= Len(w.input) /\ w.failures <= u.failures /\ (u.failures = 0 => v.failures = 0)
    BY <1>2 DEF Harmless
<1>4. Kept(w, u)
    BY <1>1, KeptTwice DEF Harmless
<1>5. ASSUME u.failures = 0, Good(w)
      PROVE  Good(u) /\ Shorter(w, u)
  <2>1. Good(v) /\ Good(u)
      BY <1>3, <1>5 DEF Harmless
  <2>2. Shorter(w, v) /\ Shorter(v, u)
      BY <1>3, <1>5, <2>1 DEF Harmless
  <2> QED BY <1>1, <2>1, <2>2, ShorterTwice
<1> QED BY <1>1, <1>3, <1>4, <1>5 DEF Harmless

\* A mode key from another field commits the letters there; the composition
\* stays where it is, without an input.
LEMMA CommitElsewhere ==
    ASSUME NEW w, Sound(w), Good(w), w.input # <<>>,
           NEW c \in Contexts, c # w.active, NEW text \in Strings,
           NEW r \in CommitText(w, c, text), r.w.failures = 0
    PROVE  Good(r.w)
<1> DEFINE Done(q) == IF q.ok THEN Result(TRUE, ClearCompositionState(q.w)) ELSE q
           q == Result(FALSE, w)
<1>1. w.comp = w.active /\ w.comp # c /\ w.comp # NoContext /\ w.preedit \in Nat
    BY SoundTypes, TextAssumption DEF Good
<1>2. q.ok = FALSE /\ q.w = w
    BY DEF Result
<1>3. RequestCommit(w, c, text) = {q}
    BY <1>1 DEF RequestCommit
<1>4. PICK o \in {q} : r \in IF o.ok THEN {Done(o)}
                               ELSE {Done(s) : s \in RequestTextReplacement(o.w, c, w.preedit, text)}
    BY <1>1, <1>3 DEF CommitText
<1> HIDE DEF q
<1>5. PICK s \in RequestTextReplacement(w, c, w.preedit, text) : r = Done(s)
    BY <1>2, <1>4
<1>6. CASE ~s.ok
  <2>1. OneFailure(w, s.w)
      BY <1>1, <1>6, ReplacementResults
  <2>2. r.w.failures = w.failures + 1 /\ w.failures \in Nat
      BY <1>5, <1>6, <2>1, SoundTypes DEF OneFailure
  <2> QED BY <2>2
<1>7. CASE s.ok
  <2>1. \E t, p \in Strings : Edited(w, c, w.comp, t, p, s.w)
      BY <1>1, <1>7, ReplacementResults
  <2>2. Sound(s.w) /\ s.w.comp = w.comp /\ s.w.active = w.active
      BY <2>1 DEF Edited, SameService
  <2>3. r.w = ClearCompositionState(s.w)
      BY <1>5, <1>7 DEF Result
  <2>4. Cleared(s.w, r.w)
      BY <2>2, <2>3, ClearResult
  <2>5. r.w.comp \in {NoContext, r.w.active}
      BY <1>1, <2>2, <2>4 DEF Cleared
  <2> QED BY <2>2, <2>4, <2>5, ClearedIsGood
<1> QED BY <1>6, <1>7

\* Whatever field the text is committed in, and whatever is refused,
\* preedit_length_ is right afterwards: it is zero, or the document and the
\* service are as they were.
LEMMA CommitMeasured ==
    ASSUME NEW w, Sound(w), NEW c \in Contexts, NEW text \in Strings,
           NEW r \in CommitText(w, c, text), Measured(w)
    PROVE  Measured(r.w)
<1> DEFINE Done(q) == IF q.ok THEN Result(TRUE, ClearCompositionState(q.w)) ELSE q
           first == IF w.comp = NoContext THEN {Result(FALSE, w)} ELSE RequestCommit(w, c, text)
<1>1. PICK q \in first : r \in IF q.ok THEN {Done(q)}
                               ELSE {Done(s) : s \in RequestTextReplacement(q.w, c, w.preedit, text)}
    BY DEF CommitText
<1>2. ASSUME NEW u, Sound(u), r.w = ClearCompositionState(u)
      PROVE  Measured(r.w)
  <2>1. Cleared(u, r.w)
      BY <1>2, ClearResult
  <2>2. /\ r.w.preedit = 0 /\ r.w.active \in Fields
        /\ \A x \in Contexts : Len(r.w.doc[x].text) \in Nat /\ Len(r.w.doc[x].comp) \in Nat
      BY <2>1, SoundTypes DEF Cleared
  <2>3. r.w.active # NoContext => r.w.active \in Contexts
      BY <2>2 DEF Fields
  <2> QED BY <2>2, <2>3 DEF Measured
<1>3. ASSUME NEW v, OnlyFailures(w, v), r.w = v
      PROVE  Measured(r.w)
    BY <1>3 DEF OnlyFailures, SameService, Measured
<1>4. CASE q.ok
  <2>1. q \in RequestCommit(w, c, text)
      BY <1>4 DEF Result
  <2>2. Sound(q.w)
      BY <1>4, <2>1, CommitResults DEF Edited
  <2>3. r.w = ClearCompositionState(q.w)
      BY <1>1, <1>4 DEF Result
  <2> QED BY <1>2, <2>2, <2>3
<1>5. CASE ~q.ok
  <2>1. OnlyFailures(w, q.w)
    <3>1. CASE w.comp = NoContext
      <4>1. q = Result(FALSE, w)
          BY <3>1
      <4> QED BY <4>1, SameOnlyFailures DEF Result
    <3>2. CASE w.comp # NoContext
      <4>1. q.w = w \/ OneFailure(w, q.w)
          BY <1>5, <3>2, CommitResults
      <4> QED BY <4>1, OneFailureOnly, SameOnlyFailures
    <3> QED BY <3>1, <3>2
  <2>2. PICK s \in RequestTextReplacement(q.w, c, w.preedit, text) : r = Done(s)
      BY <1>1, <1>5
  <2> HIDE DEF first
  <2>3. CASE s.ok
    <3>1. r.w = ClearCompositionState(s.w)
        BY <2>2, <2>3 DEF Result
    <3>2. Sound(s.w)
        BY <2>1, <2>3, FallbackResults DEF FellBack
    <3> QED BY <1>2, <3>1, <3>2
  <2>4. CASE ~s.ok
    <3>1. r = s /\ OnlyFailures(w, s.w)
        BY <2>1, <2>2, <2>4, FallbackResults
    <3> QED BY <1>3, <3>1
  <2> QED BY <2>3, <2>4
<1> QED BY <1>4, <1>5

LEMMA EmptyPrefix ==
    ASSUME NEW s \in Strings
    PROVE  IsPrefix(<<>>, s)
<1>1. Len(s) \in Nat /\ <<>> \in Strings /\ Len(<<>>) = 0
    BY LenProperties, EmptyText DEF Strings
<1>2. Len(<<>>) <= Len(s) /\ \A i \in 1 .. Len(<<>>) : <<>>[i] = s[i]
    BY <1>1
<1> QED BY <1>1, <1>2, PrefixByLetter DEF Strings

LEMMA EmptyRange == Range(<<>>) = {}
BY EmptyText DEF Range

LEMMA SameTextKeepsLetters ==
    ASSUME NEW w, NEW v, Sound(w), Good(w), \A x \in Contexts : Text(v, x) = Text(w, x)
    PROVE  LettersKept(w, v)
<1>1. CASE w.input = <<>>
    BY <1>1, EmptyRange DEF LettersKept
<1>2. CASE w.input # <<>>
  <2> DEFINE c == w.active
  <2>1. c \in Contexts /\ w.doc[c].comp = w.input
      BY <1>2 DEF Good
  <2>2. w.doc[c].text \in Strings /\ w.input \in Strings
      BY <2>1, SoundTypes
  <2>3. Range(w.input) \subseteq Range(Text(w, c))
      BY <2>1, <2>2, RangeOfConcat DEF Text, Strings
  <2> HIDE DEF c
  <2> QED BY <2>1, <2>3 DEF LettersKept
<1> QED BY <1>1, <1>2

LEMMA EnteredHarmless ==
    ASSUME NEW w, Sound(w), NEW c \in Contexts, NEW v \in Entered(w, c)
    PROVE  Harmless(w, v) /\ v.active = c
BY EnteredResults DEF Harmless

LEMMA EngineHarmless ==
    ASSUME NEW w, NEW v, Sound(w), EngineOnly(w, v)
    PROVE  Harmless(w, v)
BY EngineKeepsGood DEF Harmless, Proceeds

LEMMA ComposedIn ==
    ASSUME NEW w, Sound(w), Good(w), IsComposing(w), NEW c \in Contexts, w.active = c
    PROVE  w.comp = c
<1>1. CASE w.input # <<>> \/ w.comp # NoContext
    BY <1>1 DEF Good
<1>2. CASE w.preedit > 0
  <2>1. w.input # <<>>
      BY <1>2, EmptyText DEF Good
  <2> QED BY <2>1 DEF Good
<1> QED BY <1>1, <1>2 DEF IsComposing

LEMMA CancelHarmless ==
    ASSUME NEW w, Sound(w), NEW r \in CancelComposition(w, w.active)
    PROVE  Harmless(w, r.w)
<1>1. /\ Proceeds(w, r.w) /\ Kept(w, r.w)
      /\ \E u : Sound(u) /\ Cleared(u, r.w)
      /\ r.w.failures = 0 /\ w.comp \in {NoContext, w.active} =>
           r.w.comp = NoContext /\ \A x \in Contexts : r.w.doc[x].text = w.doc[x].text
    BY CancelResults
<1>2. ASSUME r.w.failures = 0, Good(w)
      PROVE  Good(r.w) /\ Shorter(w, r.w)
  <2>1. r.w.comp = NoContext /\ \A x \in Contexts : r.w.doc[x].text = w.doc[x].text
      BY <1>1, <1>2 DEF Good
  <2>2. Good(r.w)
      BY <1>1, <2>1, ClearedIsGood
  <2>3. Shorter(w, r.w)
      BY <1>1, <2>1, DroppedIsShorter DEF Proceeds
  <2> QED BY <2>2, <2>3
<1> QED BY <1>1, <1>2 DEF Harmless, Proceeds

\* The beginning of the input is committed, or all of it.
LEMMA CommitHarmless ==
    ASSUME NEW w, Sound(w), NEW c \in Contexts, w.active = c, IsComposing(w),
           NEW text \in Strings, Good(w) => IsPrefix(text, w.input),
           NEW r \in CommitText(w, c, text)
    PROVE  /\ Harmless(w, r.w)
           /\ Good(w) /\ r.w.failures = 0 /\ text = w.input => LettersKept(w, r.w)
<1>1. Proceeds(w, r.w) /\ Kept(w, r.w)
    BY CommitTextResults
<1>2. ASSUME Good(w), r.w.failures = 0
      PROVE  /\ Good(r.w) /\ Shorter(w, r.w)
             /\ text = w.input => LettersKept(w, r.w)
  <2>1. w.comp = c /\ w.doc[c].comp \in Strings /\ w.input \in Strings
      BY <1>2, ComposedIn, SoundTypes, LettersAreText
  <2>2. CASE w.input = <<>>
    <3>1. text = <<>>
      <4>1. Len(text) \in Nat /\ Len(text) <= Len(<<>>)
          BY <1>2, <2>2, LenProperties DEF IsPrefix, Strings
      <4>2. Len(text) = 0
          BY <4>1, EmptyText
      <4> QED BY <4>2, EmptySeq DEF Strings
    <3>2. IsPrefix(text, w.doc[c].comp)
        BY <2>1, <3>1, EmptyPrefix
    <3>3. Good(r.w) /\ Shorter(w, r.w)
        BY <1>2, <2>1, <3>2, CommitKeepsGood
    <3>4. LettersKept(w, r.w)
        BY <2>2, EmptyRange DEF LettersKept
    <3> QED BY <3>3, <3>4
  <2>3. CASE w.input # <<>>
    <3>1. w.doc[c].comp = w.input
        BY <1>2, <2>3 DEF Good
    <3>2. /\ Good(r.w) /\ Shorter(w, r.w)
          /\ text = w.input => \A x \in Contexts : Text(r.w, x) = Text(w, x)
        BY <1>2, <2>1, <3>1, CommitKeepsGood
    <3> QED BY <1>2, <3>2, SameTextKeepsLetters
  <2> QED BY <2>2, <2>3
<1> QED BY <1>1, <1>2 DEF Harmless, Proceeds

LEMMA CandidateHarmless ==
    ASSUME NEW w, Sound(w), NEW c \in Contexts, w.active = c, Len(w.input) <= MaxLetters,
           NEW k \in 1 .. Len(w.shown.of), NEW v \in CommitCandidate(w, c, k)
    PROVE  Harmless(w, v) /\ (Good(w) /\ v.failures = 0 => LettersKept(w, v))
<1>1. /\ Proceeds(w, v) /\ Kept(w, v)
      /\ v.failures = 0 /\ Good(w) /\ w.comp = c =>
           Good(v) /\ \A x \in Contexts : Text(v, x) = Text(w, x)
    BY CommitCandidateResults
<1>2. ASSUME Good(w), v.failures = 0
      PROVE  Good(v) /\ Shorter(w, v) /\ LettersKept(w, v)
  <2>1. w.shown.of # <<>>
    <3>1. CASE w.shown.of = <<>>
      <4>1. k \in 1 .. 0
          BY <3>1, EmptyText
      <4> QED BY <4>1
    <3> QED BY <3>1
  <2>2. w.comp = c
      BY <1>2, <2>1 DEF Good, PageFits
  <2>3. Good(v) /\ \A x \in Contexts : Text(v, x) = Text(w, x)
      BY <1>1, <1>2, <2>2
  <2> QED BY <1>2, <2>3, SameTextIsShorter, SameTextKeepsLetters
<1> QED BY <1>1, <1>2 DEF Harmless, Proceeds

LEMMA ClearHarmless ==
    ASSUME NEW w, Sound(w)
    PROVE  Harmless(w, ClearCompositionState(w)) /\ Cleared(w, ClearCompositionState(w))
<1> DEFINE v == ClearCompositionState(w)
<1>1. Cleared(w, v)
    BY ClearResult
<1> HIDE DEF v
<1>2. Kept(w, v)
    BY <1>1, TextUnchanged, ClearedIsKept
<1>3. ASSUME Good(w)
      PROVE  Good(v) /\ Shorter(w, v)
  <2>1. Good(v)
      BY <1>1, <1>3, ClearedIsGood DEF Good, Cleared
  <2>2. \A x \in Contexts : Text(v, x) = Text(w, x)
      BY <1>1 DEF Cleared, Text
  <2> QED BY <2>1, <2>2, SameTextIsShorter
<1>4. Sound(v) /\ Len(v.input) <= Len(w.input) /\ w.failures <= v.failures
    BY <1>1, SoundTypes, EmptyText DEF Cleared
<1>5. Harmless(w, v)
    BY <1>2, <1>3, <1>4 DEF Harmless
<1> QED BY <1>1, <1>5 DEF v

-----------------------------------------------------------------------------
(* The actions.                                                            *)

TypeInv == /\ Sound(ts) /\ Len(ts.input) <= typed
           /\ typed \in 0..MaxLetters /\ restarting \in BOOLEAN /\ strayed \in BOOLEAN

HarmlessStep == /\ Harmless(ts, ts') /\ typed' = typed /\ restarting' \in BOOLEAN
                /\ strayed' = strayed
AstrayStep == /\ Astray(ts, ts') /\ typed' = typed /\ restarting' \in BOOLEAN
              /\ strayed' = TRUE

LEMMA ShortInput ==
    ASSUME TypeInv
    PROVE  Sound(ts) /\ Len(ts.input) \in Nat /\ Len(ts.input) <= MaxLetters
<1>1. Sound(ts) /\ Len(ts.input) <= typed /\ typed \in 0..MaxLetters
    BY DEF TypeInv
<1>2. Len(ts.input) \in Nat
    BY <1>1, SoundTypes
<1> QED BY <1>1, <1>2, TextAssumption

LEMMA ComposingResults ==
    ASSUME TypeInv, NEW c \in Contexts, NEW w \in Composing(c)
    PROVE  /\ Harmless(ts, w) /\ Sound(w) /\ w.active = c /\ IsComposing(w)
           /\ Len(w.input) \in Nat /\ Len(w.input) <= MaxLetters
           /\ ts.active = c => w = ts
<1>1. Sound(ts) /\ Len(ts.input) \in Nat /\ Len(ts.input) <= MaxLetters
    BY ShortInput
<1>2. w \in Entered(ts, c) /\ IsComposing(w)
    BY DEF Composing
<1>3. Harmless(ts, w) /\ w.active = c /\ (ts.active = c => w = ts)
    BY <1>1, <1>2, EnteredHarmless, EnteredResults
<1>4. Sound(w) /\ Len(w.input) <= Len(ts.input)
    BY <1>3 DEF Harmless
<1>5. Len(w.input) \in Nat
    BY <1>4, SoundTypes
<1> QED BY <1>1, <1>2, <1>3, <1>4, <1>5, TextAssumption

\* A key that is handled while something is composed.
LEMMA HandledHarmless ==
    ASSUME TypeInv, NEW c \in Contexts, NEW W, Handled(c, W),
           \A v \in W : \E w \in Composing(c) : Harmless(w, v)
    PROVE  HarmlessStep
<1>1. Sound(ts) /\ typed' = typed /\ strayed' = strayed /\ restarting' \in BOOLEAN
    BY DEF TypeInv, Handled
<1>2. CASE ts' \in W
  <2>1. PICK w \in Composing(c) : Harmless(w, ts')
      BY <1>2
  <2>2. Harmless(ts, w)
      BY ComposingResults
  <2> QED BY <1>1, <2>1, <2>2, HarmlessTwice DEF HarmlessStep
<1>3. CASE ts' \in Entered(ts, c)
    BY <1>1, <1>3, EnteredHarmless DEF HarmlessStep
<1> QED BY <1>2, <1>3 DEF Handled, Becomes

\* In the active context.
LEMMA HandledHere ==
    ASSUME TypeInv, NEW c \in Contexts, NEW W, Handled(c, W), c = ts.active
    PROVE  ts' \in W
<1>1. Entered(ts, c) = {ts}
    BY DEF Entered
<1> QED BY <1>1 DEF Handled, Becomes

LEMMA EscapeStep ==
    ASSUME TypeInv, NEW c \in Contexts, Escape(c)
    PROVE  HarmlessStep
<1> DEFINE W == UNION {{r.w : r \in CancelComposition(w, c)} : w \in Composing(c)}
<1>1. Handled(c, W)
    BY DEF Escape
<1>2. ASSUME NEW v \in W
      PROVE  \E w \in Composing(c) : Harmless(w, v)
  <2>1. PICK w \in Composing(c) : v \in {r.w : r \in CancelComposition(w, c)}
      OBVIOUS
  <2>2. PICK r \in CancelComposition(w, c) : v = r.w
      BY <2>1
  <2>3. Sound(w) /\ w.active = c
      BY ComposingResults
  <2>4. Harmless(w, v)
      BY <2>2, <2>3, CancelHarmless
  <2> QED BY <2>4
<1> HIDE DEF W
<1> QED BY <1>1, <1>2, HandledHarmless

LEMMA ReturnStep ==
    ASSUME TypeInv, NEW c \in Contexts, Return(c)
    PROVE  /\ HarmlessStep
           /\ c = ts.active /\ Good(ts) /\ ts'.failures = 0 => LettersKept(ts, ts')
<1> DEFINE W == UNION {{r.w : r \in CommitText(w, c, w.input)} : w \in Composing(c)}
<1>1. Handled(c, W)
    BY DEF Return
<1>2. ASSUME NEW v \in W
      PROVE  \E w \in Composing(c) : /\ Harmless(w, v)
                                     /\ Good(w) /\ v.failures = 0 => LettersKept(w, v)
  <2>1. PICK w \in Composing(c) : v \in {r.w : r \in CommitText(w, c, w.input)}
      OBVIOUS
  <2>2. PICK r \in CommitText(w, c, w.input) : v = r.w
      BY <2>1
  <2>3. Sound(w) /\ w.active = c /\ IsComposing(w)
      BY ComposingResults
  <2>4. w.input \in Strings /\ IsPrefix(w.input, w.input)
      BY <2>3, SoundTypes, LettersAreText, PrefixOfItself DEF Strings
  <2>5. Harmless(w, v) /\ (Good(w) /\ v.failures = 0 => LettersKept(w, v))
      BY <2>2, <2>3, <2>4, CommitHarmless
  <2> QED BY <2>5
<1> HIDE DEF W
<1>3. HarmlessStep
    BY <1>1, <1>2, HandledHarmless
<1>4. ASSUME c = ts.active, Good(ts), ts'.failures = 0
      PROVE  LettersKept(ts, ts')
  <2>1. ts' \in W
      BY <1>1, <1>4, HandledHere
  <2>2. PICK w \in Composing(c) : Good(w) /\ ts'.failures = 0 => LettersKept(w, ts')
      BY <1>2, <2>1
  <2>3. w = ts
      BY <1>4, ComposingResults
  <2> QED BY <1>4, <2>2, <2>3
<1> QED BY <1>3, <1>4

LEMMA SelectStep ==
    ASSUME TypeInv, NEW c \in Contexts, NEW k \in Letters, Select(c, k)
    PROVE  /\ HarmlessStep
           /\ c = ts.active /\ Good(ts) /\ ts'.failures = 0 => LettersKept(ts, ts')
<1> DEFINE Chosen(w) == IF w.shown.of = <<>> THEN {r.w : r \in CommitText(w, c, w.input)}
                        ELSE IF k <= Len(w.shown.of) THEN CommitCandidate(w, c, k) ELSE {}
           W == UNION {Chosen(w) : w \in Composing(c)}
<1>1. Handled(c, W)
    BY DEF Select
<1>2. ASSUME NEW v \in W
      PROVE  \E w \in Composing(c) : /\ Harmless(w, v)
                                     /\ Good(w) /\ v.failures = 0 => LettersKept(w, v)
  <2>1. PICK w \in Composing(c) : v \in Chosen(w)
      OBVIOUS
  <2>2. Sound(w) /\ w.active = c /\ IsComposing(w) /\ Len(w.input) <= MaxLetters
      BY ComposingResults
  <2>3. CASE w.shown.of = <<>>
    <3>1. PICK r \in CommitText(w, c, w.input) : v = r.w
        BY <2>1, <2>3
    <3>2. w.input \in Strings /\ IsPrefix(w.input, w.input)
        BY <2>2, SoundTypes, LettersAreText, PrefixOfItself DEF Strings
    <3>3. Harmless(w, v) /\ (Good(w) /\ v.failures = 0 => LettersKept(w, v))
        BY <2>2, <3>1, <3>2, CommitHarmless
    <3> QED BY <3>3
  <2>4. CASE w.shown.of # <<>>
    <3>1. k <= Len(w.shown.of) /\ v \in CommitCandidate(w, c, k)
        BY <2>1, <2>4
    <3>2. k \in 1 .. Len(w.shown.of)
      <4>1. Len(w.shown.of) \in Nat
        <5>1. w.shown.of \in Words
            BY <2>2, SoundTypes
        <5> QED BY <5>1, LenProperties DEF Words
      <4> QED BY <3>1, <4>1, TextAssumption DEF Letters
    <3>3. Harmless(w, v) /\ (Good(w) /\ v.failures = 0 => LettersKept(w, v))
        BY <2>2, <3>1, <3>2, CandidateHarmless
    <3> QED BY <3>3
  <2> QED BY <2>3, <2>4
<1> HIDE DEF W
<1>3. HarmlessStep
    BY <1>1, <1>2, HandledHarmless
<1>4. ASSUME c = ts.active, Good(ts), ts'.failures = 0
      PROVE  LettersKept(ts, ts')
  <2>1. ts' \in W
      BY <1>1, <1>4, HandledHere
  <2>2. PICK w \in Composing(c) : Good(w) /\ ts'.failures = 0 => LettersKept(w, ts')
      BY <1>2, <2>1
  <2>3. w = ts
      BY <1>4, ComposingResults
  <2> QED BY <1>4, <2>2, <2>3
<1> QED BY <1>3, <1>4

LEMMA PunctuationStep ==
    ASSUME TypeInv, NEW c \in Contexts, NEW k \in Letters, Punctuation(c, k)
    PROVE  HarmlessStep
<1> DEFINE Shown(w) == IF w.shown.of = <<>> THEN w.input ELSE SubSeq(w.shown.of, 1, k)
           Sent(w) == IF k > Len(w.shown.of) /\ w.shown.of # <<>> THEN {}
                      ELSE {r.w : r \in CommitText(w, c, Shown(w))}
           W == UNION {Sent(w) : w \in Composing(c)}
<1>1. Handled(c, W)
    BY DEF Punctuation
<1>2. ASSUME NEW v \in W
      PROVE  \E w \in Composing(c) : Harmless(w, v)
  <2>1. PICK w \in Composing(c) : v \in Sent(w)
      OBVIOUS
  <2>2. /\ ~(k > Len(w.shown.of) /\ w.shown.of # <<>>)
        /\ v \in {r.w : r \in CommitText(w, c, Shown(w))}
      BY <2>1
  <2>3. PICK r \in CommitText(w, c, Shown(w)) : v = r.w
      BY <2>2
  <2>4. Sound(w) /\ w.active = c /\ IsComposing(w)
      BY ComposingResults
  <2>5. w.input \in Strings /\ w.shown.of \in Strings /\ Len(w.shown.of) \in Nat
    <3>1. w.input \in Words /\ w.shown.of \in Words
        BY <2>4, SoundTypes
    <3> QED BY <3>1, LettersAreText, LenProperties DEF Words
  <2>6. Shown(w) \in Strings /\ (Good(w) => IsPrefix(Shown(w), w.input))
    <3>1. CASE w.shown.of = <<>>
        BY <2>5, <3>1, PrefixOfItself DEF Strings
    <3>2. CASE w.shown.of # <<>>
      <4>1. k \in 0 .. Len(w.shown.of)
          BY <2>2, <2>5, <3>2, TextAssumption DEF Letters
      <4>2. SubSeq(w.shown.of, 1, k) \in Strings /\ IsPrefix(SubSeq(w.shown.of, 1, k), w.shown.of)
          BY <2>5, <4>1, CutAt DEF Strings
      <4> QED BY <3>2, <4>2 DEF Good, PageFits
    <3> QED BY <3>1, <3>2
  <2> HIDE DEF Shown
  <2>7. Harmless(w, v)
      BY <2>3, <2>4, <2>6, CommitHarmless
  <2> QED BY <2>7
<1> HIDE DEF W
<1> QED BY <1>1, <1>2, HandledHarmless

\* The input is shown, or everything is given up.
ShownPreedit(v, c) == {IF r.ok THEN r.w ELSE ClearCompositionState(r.w)
                         : r \in UpdatePreedit(v, c, v.input)}

\* The preedit that u shows is the input of v.
ShowsInput(v, c, u) ==
  /\ u.comp = c /\ u.doc[c].text = v.doc[c].text /\ u.doc[c].comp = v.input
  /\ \A x \in Contexts \ {c} : u.doc[x] = v.doc[x]
  /\ u.input = v.input /\ u.preedit = Len(v.input) /\ u.pending = v.pending
  /\ u.shown = v.shown /\ u.last = v.last /\ u.ready = v.ready

LEMMA ShownResults ==
    ASSUME NEW v, Sound(v), NEW c \in Contexts, v.active = c, Len(v.input) <= MaxLetters,
           NEW u \in ShownPreedit(v, c)
    PROVE  /\ Proceeds(v, u) /\ Kept(v, u)
           /\ u.failures = 0 /\ v.comp \in {NoContext, c} => ShowsInput(v, c, u)
<1>1. PICK r \in UpdatePreedit(v, c, v.input) :
             u = IF r.ok THEN r.w ELSE ClearCompositionState(r.w)
    BY DEF ShownPreedit
<1>2. v.input \in Strings /\ Len(v.input) \in Nat /\ v.failures \in Nat
    BY SoundTypes, LettersAreText
<1>3. /\ r.ok \in BOOLEAN /\ PreeditOnly(v, r.w) /\ Kept(v, r.w)
      /\ r.ok => r.w.preedit = Len(v.input)
      /\ r.w.failures = 0 /\ v.comp \in {NoContext, c} =>
           /\ r.ok /\ r.w.comp = c
           /\ r.w.doc[c].text = v.doc[c].text /\ r.w.doc[c].comp = v.input
           /\ \A x \in Contexts \ {c} : r.w.doc[x] = v.doc[x]
    BY <1>2, UpdatePreeditResults
<1>4. CASE r.ok
  <2>1. u = r.w
      BY <1>1, <1>4
  <2>2. Proceeds(v, u)
      BY <1>2, <1>3, <2>1 DEF PreeditOnly, Proceeds
  <2>3. u.failures = 0 /\ v.comp \in {NoContext, c} => ShowsInput(v, c, u)
      BY <1>3, <1>4, <2>1 DEF PreeditOnly, ShowsInput
  <2> QED BY <1>3, <2>1, <2>2, <2>3
<1>5. CASE ~r.ok
  <2>1. Sound(r.w) /\ u = ClearCompositionState(r.w)
      BY <1>1, <1>3, <1>5 DEF PreeditOnly
  <2>2. Cleared(r.w, u)
      BY <2>1, ClearResult
  <2>3. Kept(r.w, u)
      BY <2>1, <2>2, TextUnchanged, ClearedIsKept
  <2>4. Kept(v, u)
      BY <1>3, <2>1, <2>2, <2>3, KeptTwice DEF Cleared
  <2>5. Proceeds(v, u)
      BY <1>2, <1>3, <2>2, EmptyText DEF PreeditOnly, Proceeds, Cleared
  <2>6. u.failures = r.w.failures
      BY <2>2 DEF Cleared
  <2> QED BY <1>3, <1>5, <2>4, <2>5, <2>6
<1> QED BY <1>4, <1>5

LEMMA ShownIsGood ==
    ASSUME NEW v, NEW u, NEW c \in Contexts, v.active = c, u.active = c, ~v.pending,
           PageFits(v), ShowsInput(v, c, u)
    PROVE  Good(u)
BY DEF Good, ShowsInput, PageFits

\* A letter is taken away.
LEMMA PoppedHarmless ==
    ASSUME NEW w, Sound(w), NEW c \in Contexts, w.active = c, w.input # <<>>,
           Len(w.input) <= MaxLetters,
           NEW v \in RefreshCandidates([w EXCEPT !.input = SubSeq(w.input, 1, Len(w.input) - 1)]),
           NEW u \in IF v.input = <<>> THEN {r.w : r \in CancelComposition(v, c)}
                     ELSE ShownPreedit(v, c)
    PROVE  Harmless(w, u)
<1> DEFINE s == SubSeq(w.input, 1, Len(w.input) - 1)
           y == [w EXCEPT !.input = s]
<1>1. w.input \in Words /\ Len(w.input) \in Nat /\ w.failures \in Nat /\ w.input \in Strings
    BY SoundTypes, LettersAreText
<1>2. s \in Words /\ Len(s) = Len(w.input) - 1 /\ IsPrefix(s, w.input) /\ Len(w.input) - 1 \in Nat
  <2>1. Len(w.input) # 0
      BY <1>1, EmptySeq DEF Words
  <2> DEFINE t == w.input
             n == Len(t) - 1
  <2>2. n \in 0 .. Len(t) /\ n \in Nat /\ t \in Words /\ s = SubSeq(t, 1, n) /\ n = Len(w.input) - 1
      BY <1>1, <2>1
  <2> HIDE DEF s, t, n
  <2>3. SubSeq(t, 1, n) \in Words /\ Len(SubSeq(t, 1, n)) = n /\ IsPrefix(SubSeq(t, 1, n), t)
      BY <2>2, CutAt DEF Words
  <2> QED BY <2>2, <2>3 DEF t
<1> HIDE DEF s
<1>3. /\ Proceeds(w, y) /\ Kept(w, y) /\ y.input = s /\ y.failures = w.failures
      /\ y.doc = w.doc /\ y.comp = w.comp /\ y.active = w.active
      /\ y.shown = w.shown /\ y.last = w.last /\ y.ready = w.ready
      /\ y.pending = w.pending /\ y.preedit = w.preedit
  <2>1. Len(s) <= Len(w.input)
      BY <1>1, <1>2
  <2> QED BY <1>2, <2>1, ShortenedInput
<1>4. v \in RefreshCandidates(y)
    BY DEF s
<1> HIDE DEF y
<1>5. Sound(y)
    BY <1>3 DEF Proceeds
<1>6. OnlyPage(y, v) /\ (y.shown.of \in {<<>>, y.last} => PageFits(v))
    BY <1>4, <1>5, RefreshResults
<1>7. /\ Sound(v) /\ Kept(y, v) /\ v.input = s /\ v.failures = w.failures /\ v.doc = w.doc
      /\ v.comp = w.comp /\ v.active = c /\ v.pending = w.pending /\ v.preedit = w.preedit
    BY <1>3, <1>5, <1>6, PageKeepsGood DEF OnlyPage
<1>8. Kept(w, v)
    BY <1>3, <1>5, <1>7, KeptTwice
<1>9. Good(w) => /\ w.comp = c /\ w.doc[c].comp = w.input /\ PageFits(v) /\ ~v.pending
    BY <1>3, <1>6, <1>7 DEF Good, PageFits
<1>10. ASSUME Proceeds(v, u), Kept(v, u)
       PROVE  Sound(u) /\ Len(u.input) <= Len(w.input) /\ w.failures <= u.failures /\ Kept(w, u)
  <2>1. Sound(u) /\ Len(u.input) <= Len(s) /\ w.failures <= u.failures
      BY <1>7, <1>10 DEF Proceeds
  <2>2. Len(u.input) \in Nat
      BY <2>1, SoundTypes
  <2>3. Len(u.input) <= Len(w.input)
      BY <1>1, <1>2, <2>1, <2>2
  <2> QED BY <1>7, <1>8, <1>10, <2>1, <2>3, KeptTwice
<1>11. CASE v.input = <<>>
  <2>1. PICK r \in CancelComposition(v, c) : u = r.w
      BY <1>11
  <2>2. /\ Proceeds(v, u) /\ Kept(v, u)
        /\ \E z : Sound(z) /\ Cleared(z, u)
        /\ u.failures = 0 /\ v.comp \in {NoContext, v.active} =>
             u.comp = NoContext /\ \A x \in Contexts : u.doc[x].text = v.doc[x].text
      BY <1>7, <2>1, CancelResults
  <2>3. Sound(u)
      BY <2>2 DEF Proceeds
  <2>4. ASSUME u.failures = 0, Good(w)
        PROVE  Good(u) /\ Shorter(w, u)
    <3>1. u.comp = NoContext /\ \A x \in Contexts : u.doc[x].text = w.doc[x].text
        BY <1>7, <1>9, <2>2, <2>4
    <3>2. Good(u)
        BY <2>2, <3>1, ClearedIsGood
    <3>3. Shorter(w, u)
        BY <2>3, <3>1, DroppedIsShorter
    <3> QED BY <3>2, <3>3
  <2> QED BY <1>10, <2>2, <2>4 DEF Harmless
<1>12. CASE v.input # <<>>
  <2>1. u \in ShownPreedit(v, c)
      BY <1>12
  <2>2. Len(v.input) <= MaxLetters
      BY <1>1, <1>2, <1>7, TextAssumption
  <2>3. /\ Proceeds(v, u) /\ Kept(v, u)
        /\ u.failures = 0 /\ v.comp \in {NoContext, c} => ShowsInput(v, c, u)
      BY <1>7, <2>1, <2>2, ShownResults
  <2>4. ASSUME u.failures = 0, Good(w)
        PROVE  Good(u) /\ Shorter(w, u)
    <3>1. ShowsInput(v, c, u) /\ u.active = c
        BY <1>7, <1>9, <2>3, <2>4 DEF Proceeds
    <3>2. Good(u)
        BY <1>7, <1>9, <2>4, <3>1, ShownIsGood
    <3>3. /\ Text(u, c) = w.doc[c].text \o s /\ Text(w, c) = w.doc[c].text \o w.input
          /\ \A x \in Contexts \ {c} : Text(u, x) = Text(w, x)
        BY <1>7, <1>9, <2>4, <3>1 DEF ShowsInput, Text
    <3>4. s \in Strings /\ w.doc[c].text \in Strings
        BY <1>2, SoundTypes, LettersAreText
    <3>5. IsPrefix(Text(u, c), Text(w, c))
        BY <1>1, <1>2, <3>3, <3>4, PrefixAfter DEF Strings
    <3>6. \A x \in Contexts \ {c} : IsPrefix(Text(u, x), Text(w, x))
        BY <3>3, TextType, PrefixOfItself DEF Strings
    <3>7. Shorter(w, u)
        BY <3>5, <3>6 DEF Shorter
    <3> QED BY <3>2, <3>7
  <2> QED BY <1>10, <2>3, <2>4 DEF Harmless
<1> QED BY <1>11, <1>12

LEMMA BackspaceStep ==
    ASSUME TypeInv, NEW c \in Contexts, Backspace(c)
    PROVE  HarmlessStep
<1> DEFINE Shown(w) == IF w.input = <<>> THEN {r.w : r \in CancelComposition(w, c)}
                       ELSE {IF r.ok THEN r.w ELSE ClearCompositionState(r.w)
                               : r \in UpdatePreedit(w, c, w.input)}
           Popped(w) == IF w.input = <<>> THEN {[w EXCEPT !.undefined = TRUE]}
                        ELSE UNION {Shown(v) : v \in
                               RefreshCandidates([w EXCEPT !.input = SubSeq(@, 1, Len(@) - 1)])}
           W == UNION {Popped(w) : w \in Composing(c)}
<1>1. Handled(c, W)
    BY DEF Backspace
<1>2. ASSUME NEW u \in W
      PROVE  \E w \in Composing(c) : Harmless(w, u)
  <2>1. PICK w \in Composing(c) : u \in Popped(w)
      OBVIOUS
  <2>2. Sound(w) /\ w.active = c /\ Len(w.input) <= MaxLetters
      BY ComposingResults
  <2>3. CASE w.input = <<>>
    <3>1. u = [w EXCEPT !.undefined = TRUE]
        BY <2>1, <2>3
    <3>2. w \in States /\ Len(w.input) \in Nat /\ w.failures \in Nat
        BY <2>2, SoundTypes DEF Sound
    <3>3. /\ u \in States /\ u.doc = w.doc /\ u.comp = w.comp /\ u.active = w.active
          /\ u.input = w.input /\ u.preedit = w.preedit /\ u.pending = w.pending
          /\ u.shown = w.shown /\ u.last = w.last /\ u.ready = w.ready /\ u.gen = w.gen
          /\ u.failures = w.failures
        BY <3>1, <3>2 DEF States
    <3>4. EngineOnly(w, u)
        BY <2>2, <3>2, <3>3 DEF EngineOnly, Sound
    <3>5. Harmless(w, u)
        BY <2>2, <3>4, EngineHarmless
    <3> QED BY <3>5
  <2>4. CASE w.input # <<>>
    <3> DEFINE y == [w EXCEPT !.input = SubSeq(w.input, 1, Len(w.input) - 1)]
    <3>1. [w EXCEPT !.input = SubSeq(@, 1, Len(@) - 1)] = y
        BY <2>2 DEF Sound, States
    <3>2. PICK v \in RefreshCandidates(y) : u \in Shown(v)
        BY <2>1, <2>4, <3>1
    <3>3. u \in IF v.input = <<>> THEN {r.w : r \in CancelComposition(v, c)}
                ELSE ShownPreedit(v, c)
        BY <3>2 DEF ShownPreedit
    <3> HIDE DEF Shown
    <3>4. Harmless(w, u)
        BY <2>2, <2>4, <3>2, <3>3, PoppedHarmless
    <3> QED BY <3>4
  <2> QED BY <2>3, <2>4
<1> HIDE DEF W
<1> QED BY <1>1, <1>2, HandledHarmless

LEMMA ActiveContext ==
    ASSUME TypeInv, ts.active # NoContext
    PROVE  ts.active \in Contexts
BY SoundTypes DEF TypeInv, Fields

LEMMA ClickStep ==
    ASSUME TypeInv, NEW k \in Letters, Click(k)
    PROVE  /\ HarmlessStep
           /\ Good(ts) /\ ts'.failures = 0 => LettersKept(ts, ts')
<1> DEFINE c == ts.active
<1>1. c \in Contexts
    BY ActiveContext DEF Click
<1>2. k \in 1 .. Len(ts.shown.of) /\ ts' \in CommitCandidate(ts, c, k)
    BY DEF Click, Becomes
<1>3. Sound(ts) /\ Len(ts.input) <= MaxLetters /\ ts.active = c
    BY ShortInput
<1> HIDE DEF c
<1>4. Harmless(ts, ts') /\ (Good(ts) /\ ts'.failures = 0 => LettersKept(ts, ts'))
    BY <1>1, <1>2, <1>3, CandidateHarmless
<1> QED BY <1>4 DEF HarmlessStep, TypeInv, Click

LEMMA ModeKeyStep ==
    ASSUME TypeInv, NEW c \in Contexts, ModeKey(c)
    PROVE  /\ c = ts.active => /\ HarmlessStep
                               /\ Good(ts) /\ ts'.failures = 0 => LettersKept(ts, ts')
           /\ c # ts.active => AstrayStep
<1>1. PICK r \in CommitText(ts, c, ts.input) : ts' = r.w
    BY DEF ModeKey, Becomes
<1>2. Sound(ts) /\ ts.input \in Strings /\ IsPrefix(ts.input, ts.input) /\ IsComposing(ts)
  <2>1. Sound(ts) /\ IsComposing(ts)
      BY ShortInput DEF ModeKey, IsComposing
  <2> QED BY <2>1, SoundTypes, LettersAreText, PrefixOfItself DEF Strings
<1>3. typed' = typed /\ restarting' \in BOOLEAN
    BY DEF ModeKey, TypeInv
<1>4. CASE c = ts.active
  <2>1. Harmless(ts, r.w) /\ (Good(ts) /\ r.w.failures = 0 => LettersKept(ts, r.w))
      BY <1>2, <1>4, CommitHarmless
  <2>2. strayed' = strayed
      BY <1>4, Zenon DEF ModeKey, TypeInv
  <2> QED BY <1>1, <1>3, <1>4, <2>1, <2>2 DEF HarmlessStep
<1>5. CASE c # ts.active
  <2>1. Measured(ts) => Measured(r.w)
      BY <1>2, CommitMeasured
  <2>2. Proceeds(ts, r.w)
      BY <1>2, CommitTextResults
  <2>3. r.w.failures = 0 /\ Good(ts) => Good(r.w)
      BY <1>2, <1>5, CommitElsewhere DEF ModeKey
  <2>4. Astray(ts, r.w)
      BY <2>1, <2>2, <2>3 DEF Astray, Proceeds
  <2>5. strayed' = TRUE
      BY <1>5, Zenon DEF ModeKey
  <2> QED BY <1>1, <1>3, <1>5, <2>4, <2>5 DEF AstrayStep
<1> QED BY <1>4, <1>5

\* A composition is ended where it is.
Released(w, v) ==
  /\ Sound(v) /\ SameService(w, v) /\ v.failures = w.failures /\ v.comp = NoContext
  /\ \A x \in Contexts : IsPrefix(w.doc[x].text, v.doc[x].text) /\ Text(v, x) = Text(w, x)

Left(w, c) == [w EXCEPT !.comp = NoContext,
                        !.doc[c] = [text |-> @.text \o @.comp, comp |-> <<>>]]

LEMMA ReleasedResult ==
    ASSUME NEW w, Sound(w), NEW c \in Contexts, w.comp = c
    PROVE  Released(w, Left(w, c))
<1> DEFINE T == w.doc[c].text
           C == w.doc[c].comp
           u == Left(w, c)
<1>1. w \in States
    BY DEF Sound
<1>2. T \in Strings /\ C \in Strings /\ IsPrefix(T, T \o C)
    BY SoundTypes, PrefixOfLonger DEF Strings
<1>3. Result(TRUE, u) \in RequestCommit(w, c, C)
  <2>1. u = [w EXCEPT !.comp = NoContext, !.doc[c] = [text |-> @.text \o C, comp |-> <<>>]]
      BY <1>1 DEF States, Documents, Left
  <2> HIDE DEF u
  <2> QED BY <2>1 DEF RequestCommit, Session
<1> HIDE DEF u
<1>4. Edited(w, c, NoContext, T \o C, <<>>, u)
  <2> DEFINE r == Result(TRUE, u)
             D == w.doc[c].comp
  <2>1. r.ok = TRUE /\ r.w = u /\ r \in RequestCommit(w, c, D) /\ D \in Strings /\ D = C
      BY <1>2, <1>3 DEF Result
  <2> HIDE DEF r, D
  <2>2. \/ w.comp # c /\ r.ok = FALSE /\ r.w = w
        \/ /\ w.comp = c
           /\ \/ r.ok = TRUE /\ Edited(w, c, NoContext, w.doc[c].text \o D, <<>>, r.w)
              \/ r.ok = FALSE /\ OneFailure(w, r.w)
      BY <2>1, CommitResults
  <2> QED BY <2>1, <2>2
<1>5. /\ Sound(u) /\ SameService(w, u) /\ u.failures = w.failures /\ u.comp = NoContext
      /\ u.doc[c].text = T \o C /\ \A x \in Contexts \ {c} : u.doc[x] = w.doc[x]
    BY <1>4 DEF Edited
<1>6. Text(u, c) = T \o C /\ Text(w, c) = T \o C
  <2>1. u.comp # c
      BY <1>5, TextAssumption
  <2> HIDE DEF T, C
  <2>2. Text(u, c) = u.doc[c].text
      BY <1>5, <2>1, TextType
  <2> QED BY <1>5, <2>2 DEF Text, T, C
<1>7. \A x \in Contexts : IsPrefix(w.doc[x].text, u.doc[x].text) /\ Text(u, x) = Text(w, x)
  <2> SUFFICES ASSUME NEW x \in Contexts
               PROVE  IsPrefix(w.doc[x].text, u.doc[x].text) /\ Text(u, x) = Text(w, x)
      OBVIOUS
  <2>1. CASE x = c
      BY <1>2, <1>5, <1>6, <2>1
  <2>2. CASE x # c
      BY <1>5, <2>2, TextUnchanged DEF Text
  <2> QED BY <2>1, <2>2
<1>8. Released(w, u)
    BY <1>5, <1>7 DEF Released
<1> QED BY <1>8 DEF u

\* And nothing counts as the preedit any more.
LEMMA ReleasedHarmless ==
    ASSUME NEW w, Sound(w), NEW v, Sound(v), v.preedit = 0, v.input \in {<<>>, w.input},
           v.failures = w.failures,
           \A x \in Contexts : IsPrefix(w.doc[x].text, v.doc[x].text) /\ Text(v, x) = Text(w, x),
           Good(w) => Good(v)
    PROVE  Harmless(w, v)
<1>1. Len(w.input) \in Nat /\ w.failures \in Nat
    BY SoundTypes
<1>2. Len(v.input) <= Len(w.input) /\ w.failures <= v.failures
    BY <1>1, EmptyText
<1>3. Kept(w, v)
    BY GrownIsKept
<1>4. Shorter(w, v)
    BY SameTextIsShorter
<1> QED BY <1>2, <1>3, <1>4 DEF Harmless

LEMMA OnCompositionTerminatedStep ==
    ASSUME TypeInv, OnCompositionTerminated
    PROVE  HarmlessStep
<1> DEFINE c == ts.comp
           left == Left(ts, c)
<1>1. /\ c # NoContext /\ typed' = typed /\ strayed' = strayed /\ restarting' = restarting
      /\ ts' = IF ts.pending /\ ts.input # <<>> THEN [left EXCEPT !.preedit = 0]
               ELSE ClearCompositionState(left)
    BY DEF OnCompositionTerminated, Becomes, Left
<1>2. Sound(ts)
    BY DEF TypeInv
<1>3. Released(ts, left)
  <2>1. c \in Contexts
      BY <1>1, <1>2, SoundTypes DEF Fields
  <2> QED BY <1>2, <2>1, ReleasedResult
<1> HIDE DEF left
<1>4. CASE ts.pending /\ ts.input # <<>>
  <2> DEFINE v == [left EXCEPT !.preedit = 0]
  <2>1. 0 \in 0..MaxLetters /\ Sound(left)
      BY <1>3, TextAssumption DEF Released
  <2>2. /\ Sound(v) /\ v.preedit = 0 /\ v.input = left.input
        /\ v.doc = left.doc /\ v.comp = left.comp /\ v.failures = left.failures
      BY <2>1, NewPreedit
  <2>3. ts' = v
      BY <1>1, <1>4
  <2> HIDE DEF v
  <2>4. \A x \in Contexts : IsPrefix(ts.doc[x].text, v.doc[x].text) /\ Text(v, x) = Text(ts, x)
      BY <1>3, <2>2 DEF Released, Text
  <2>5. v.input = ts.input /\ v.failures = ts.failures /\ ~Good(ts)
      BY <1>3, <1>4, <2>2 DEF Released, SameService, Good
  <2>6. Harmless(ts, v)
      BY <1>2, <2>2, <2>4, <2>5, ReleasedHarmless
  <2> QED BY <1>1, <2>3, <2>6 DEF HarmlessStep, TypeInv
<1>5. CASE ~(ts.pending /\ ts.input # <<>>)
  <2> DEFINE v == ClearCompositionState(left)
  <2>1. Sound(left)
      BY <1>3 DEF Released
  <2>2. Cleared(left, v)
      BY <2>1, ClearResult
  <2>3. ts' = v
      BY <1>1, <1>5
  <2> HIDE DEF v
  <2>4. /\ \A x \in Contexts : IsPrefix(ts.doc[x].text, v.doc[x].text) /\ Text(v, x) = Text(ts, x)
        /\ v.comp = NoContext /\ v.failures = ts.failures /\ v.input = <<>> /\ v.preedit = 0
        /\ Sound(v)
      BY <1>3, <2>2 DEF Released, Text, Cleared
  <2>5. Good(v)
      BY <2>1, <2>2, <2>4, ClearedIsGood
  <2>6. Harmless(ts, v)
      BY <1>2, <2>4, <2>5, ReleasedHarmless
  <2> QED BY <1>1, <2>3, <2>6 DEF HarmlessStep, TypeInv
<1> QED BY <1>4, <1>5

LEMMA OnFocusLostStep ==
    ASSUME TypeInv, OnFocusLost
    PROVE  HarmlessStep
<1>1. PICK r \in CancelComposition(ts, ts.active) : ts' = r.w
    BY DEF OnFocusLost, Becomes
<1>2. Harmless(ts, r.w)
    BY CancelHarmless DEF TypeInv
<1> QED BY <1>1, <1>2 DEF HarmlessStep, OnFocusLost, TypeInv

LEMMA DeactivateStep ==
    ASSUME TypeInv, Deactivate
    PROVE  HarmlessStep
<1> DEFINE left == IF ts.comp = NoContext THEN ts ELSE Left(ts, ts.comp)
           u == ClearCompositionState(left)
           v == [u EXCEPT !.active = NoContext]
<1>1. ts' = v /\ typed' = typed /\ strayed' = strayed /\ restarting' = restarting
    BY DEF Deactivate, Becomes, Left
<1>2. Sound(ts)
    BY DEF TypeInv
<1>3. Released(ts, left)
  <2>1. CASE ts.comp = NoContext
    <3>1. Released(ts, ts)
        BY <1>2, <2>1, TextUnchanged DEF Released, SameService
    <3> QED BY <2>1, <3>1
  <2>2. CASE ts.comp # NoContext
    <3>1. Released(ts, Left(ts, ts.comp))
      <4>1. ts.comp \in Contexts
          BY <1>2, <2>2, SoundTypes DEF Fields
      <4> QED BY <1>2, <4>1, ReleasedResult
    <3> QED BY <2>2, <3>1
  <2> QED BY <2>1, <2>2
<1> HIDE DEF left
<1>4. Cleared(left, u)
    BY <1>3, ClearResult DEF Released
<1> HIDE DEF u
<1>5. /\ v \in States /\ v.active = NoContext /\ v.input = u.input /\ v.preedit = u.preedit
      /\ v.pending = u.pending /\ v.shown = u.shown /\ v.last = u.last /\ v.gen = u.gen
      /\ v.doc = u.doc /\ v.comp = u.comp /\ v.failures = u.failures
  <2>1. u \in States /\ NoContext \in Fields
      BY <1>4 DEF Cleared, Sound, Fields
  <2> QED BY <2>1 DEF States
<1> HIDE DEF v
<1>6. Sound(v)
    BY <1>4, <1>5 DEF Cleared, Sound
<1>7. /\ \A x \in Contexts : IsPrefix(ts.doc[x].text, v.doc[x].text) /\ Text(v, x) = Text(ts, x)
      /\ v.failures = ts.failures /\ v.input = <<>> /\ v.preedit = 0
    BY <1>3, <1>4, <1>5 DEF Released, Text, Cleared
<1>8. Good(v)
    BY <1>3, <1>4, <1>5, EmptyText DEF Good, Released, Cleared, PageFits, NoPage
<1>9. Harmless(ts, v)
    BY <1>2, <1>6, <1>7, <1>8, ReleasedHarmless
<1> QED BY <1>1, <1>9 DEF HarmlessStep, TypeInv

LEMMA WarmUpStep ==
    ASSUME TypeInv, WarmUp
    PROVE  HarmlessStep
<1>1. Harmless(ts, ts')
    BY InitializeResults, EngineHarmless DEF WarmUp, Becomes, TypeInv
<1> QED BY <1>1 DEF HarmlessStep, WarmUp, TypeInv

LEMMA RestartRimeAndAlgorithmServiceStep ==
    ASSUME TypeInv, RestartRimeAndAlgorithmService
    PROVE  HarmlessStep
<1> DEFINE v == ClearCompositionState(ts)
<1>1. Sound(ts) /\ ts' \in Restarted(v) /\ typed' = typed /\ strayed' = strayed /\ restarting' \in BOOLEAN
    BY DEF RestartRimeAndAlgorithmService, Becomes, TypeInv
<1>2. Harmless(ts, v)
    BY <1>1, ClearHarmless
<1> HIDE DEF v
<1>3. Harmless(v, ts')
    BY <1>1, <1>2, RestartedResults, EngineHarmless DEF Harmless
<1>4. Harmless(ts, ts')
    BY <1>1, <1>2, <1>3, HarmlessTwice
<1> QED BY <1>1, <1>4 DEF HarmlessStep

LEMMA ShutdownRimeForUninstallStep ==
    ASSUME TypeInv, ShutdownRimeForUninstall
    PROVE  HarmlessStep
<1> DEFINE u == ClearCompositionState(ts)
           v == [u EXCEPT !.ready = FALSE]
<1>1. Sound(ts) /\ ts' = v /\ typed' = typed /\ strayed' = strayed /\ restarting' \in BOOLEAN
    BY DEF ShutdownRimeForUninstall, Becomes, TypeInv
<1>2. Harmless(ts, u) /\ Cleared(ts, u)
    BY <1>1, ClearHarmless
<1> HIDE DEF u
<1>3. /\ v \in States /\ v.active = u.active /\ v.input = u.input /\ v.preedit = u.preedit
      /\ v.pending = u.pending /\ v.shown = u.shown /\ v.last = u.last /\ v.gen = u.gen
      /\ v.doc = u.doc /\ v.comp = u.comp /\ v.failures = u.failures
  <2>1. u \in States
      BY <1>2 DEF Cleared, Sound
  <2> QED BY <2>1 DEF States
<1> HIDE DEF v
<1>4. Sound(u) /\ Sound(v)
    BY <1>2, <1>3 DEF Cleared, Sound
<1>5. Good(u) => Good(v)
    BY <1>2, <1>3 DEF Good, PageFits, Cleared, NoPage
<1>6. /\ v.preedit = 0
      /\ \A x \in Contexts : IsPrefix(u.doc[x].text, v.doc[x].text) /\ Text(v, x) = Text(u, x)
    BY <1>2, <1>3, <1>4, TextUnchanged DEF Cleared, Text
<1>7. Harmless(u, v)
    BY <1>3, <1>4, <1>5, <1>6, ReleasedHarmless
<1>8. Harmless(ts, v)
    BY <1>1, <1>2, <1>7, HarmlessTwice
<1> QED BY <1>1, <1>8 DEF HarmlessStep

LEMMA RestartRimeAndAlgorithmServiceAsyncStep ==
    ASSUME TypeInv, RestartRimeAndAlgorithmServiceAsync
    PROVE  HarmlessStep
<1>1. ts' = ClearCompositionState(ts) /\ typed' = typed /\ strayed' = strayed /\ restarting' = TRUE
    BY DEF RestartRimeAndAlgorithmServiceAsync, Becomes
<1>2. Harmless(ts, ClearCompositionState(ts))
    BY ClearHarmless DEF TypeInv
<1> QED BY <1>1, <1>2 DEF HarmlessStep

LEMMA ReloadRimeAndAlgorithmServiceStep ==
    ASSUME TypeInv, ReloadRimeAndAlgorithmService
    PROVE  HarmlessStep
<1>1. ts' \in Restarted(ts) /\ typed' = typed /\ strayed' = strayed /\ restarting' = FALSE
    BY DEF ReloadRimeAndAlgorithmService, Becomes
<1>2. Harmless(ts, ts')
    BY <1>1, RestartedResults, EngineHarmless DEF TypeInv
<1> QED BY <1>1, <1>2 DEF HarmlessStep

-----------------------------------------------------------------------------
(* A letter.                                                               *)

\* A composition that was terminated while a commit went on is shown again.
Recovering(w, c) == {IF r.ok THEN [r.w EXCEPT !.pending = FALSE] ELSE r.w
                       : r \in UpdatePreedit(w, c, w.input)}

LEMMA RecoveredResults ==
    ASSUME NEW w, Sound(w), NEW c \in Contexts, w.active = c, Len(w.input) <= MaxLetters,
           NEW v \in Recovering(w, c)
    PROVE  Sound(v) /\ v.active = c /\ v.input = w.input /\ w.failures <= v.failures /\ Kept(w, v)
<1>0. PICK r \in UpdatePreedit(w, c, w.input) :
             v = IF r.ok THEN [r.w EXCEPT !.pending = FALSE] ELSE r.w
    BY DEF Recovering
<1>1. w.input \in Strings
    BY SoundTypes, LettersAreText
<1>2. PreeditOnly(w, r.w) /\ Kept(w, r.w)
    BY <1>1, UpdatePreeditResults
<1>3. CASE r.ok
  <2> DEFINE z == r.w
  <2>1. Sound(z) /\ z \in States
      BY <1>2 DEF PreeditOnly, Sound
  <2>2. v = [z EXCEPT !.pending = FALSE]
      BY <1>0, <1>3
  <2>3. z.active = c /\ z.input = w.input /\ w.failures <= z.failures /\ Kept(w, z)
      BY <1>2 DEF PreeditOnly
  <2> HIDE DEF z
  <2>4. /\ v \in States /\ v.doc = z.doc /\ v.comp = z.comp /\ v.active = z.active
        /\ v.input = z.input /\ v.preedit = z.preedit /\ v.shown = z.shown
        /\ v.gen = z.gen /\ v.failures = z.failures
      BY <2>1, <2>2 DEF States
  <2>5. Sound(v)
      BY <2>1, <2>4 DEF Sound
  <2>6. Kept(z, v)
      BY <2>1, <2>4, SameIsKept
  <2> QED BY <2>1, <2>3, <2>4, <2>5, <2>6, KeptTwice
<1>4. CASE ~r.ok
    BY <1>0, <1>2, <1>4 DEF PreeditOnly
<1> QED BY <1>3, <1>4

\* The letter is added and the page asked for.
LEMMA QueriedResults ==
    ASSUME NEW w, Sound(w), NEW s \in Words, NEW v \in InitializeRime([w EXCEPT !.input = s]),
           NEW u \in IF v.ready THEN RefreshCandidates(v) ELSE {[v EXCEPT !.shown = NoPage]}
    PROVE  /\ Sound(u) /\ Kept(w, u) /\ u.input = s /\ w.failures <= u.failures
           /\ u.doc = w.doc /\ u.comp = w.comp /\ u.active = w.active /\ u.pending = w.pending
           /\ w.shown.of \in {<<>>, w.last} => PageFits(u)
<1> DEFINE y == [w EXCEPT !.input = s]
<1>1. /\ Sound(y) /\ Kept(w, y) /\ y.input = s /\ y.failures = w.failures
      /\ y.doc = w.doc /\ y.comp = w.comp /\ y.active = w.active
      /\ y.shown = w.shown /\ y.last = w.last /\ y.ready = w.ready
      /\ y.pending = w.pending /\ y.preedit = w.preedit
    BY NewInput
<1>2. v \in InitializeRime(y)
    OBVIOUS
<1> HIDE DEF y
<1>3. EngineOnly(y, v) /\ Sound(v) /\ Kept(y, v)
    BY <1>1, <1>2, InitializeResults, EngineKeepsGood DEF Proceeds
<1>4. OnlyPage(v, u) /\ (v.shown.of \in {<<>>, v.last} => PageFits(u))
  <2>1. CASE v.ready
      BY <1>3, <2>1, RefreshResults
  <2>2. CASE ~v.ready
    <3>1. u = [v EXCEPT !.shown = NoPage]
        BY <2>2
    <3>2. v \in States /\ NoPage \in [of : Words, gen : Nat] /\ NoPage.gen = 0 /\ NoPage.of = <<>>
          /\ v.gen \in Nat
        BY <1>3, EmptyText, SoundTypes, TextAssumption DEF Sound, NoPage
    <3>3. /\ u \in States /\ u.shown = NoPage /\ u.input = v.input /\ u.preedit = v.preedit
          /\ u.pending = v.pending /\ u.doc = v.doc /\ u.comp = v.comp /\ u.active = v.active
          /\ u.ready = v.ready /\ u.gen = v.gen /\ u.failures = v.failures
          /\ u.undefined = v.undefined
        BY <3>1, <3>2 DEF States
    <3>4. Sound(u)
        BY <1>3, <3>2, <3>3 DEF Sound
    <3> QED BY <3>2, <3>3, <3>4 DEF OnlyPage, PageFits
  <2> QED BY <2>1, <2>2
<1>5. Sound(u) /\ Kept(v, u)
    BY <1>3, <1>4, PageKeepsGood DEF OnlyPage
<1>6. Kept(w, u)
    BY <1>1, <1>3, <1>5, KeptTwice
<1>7. /\ u.input = s /\ w.failures <= u.failures /\ u.doc = w.doc /\ u.comp = w.comp
      /\ u.active = w.active /\ u.pending = w.pending /\ v.shown = w.shown /\ v.last = w.last
    BY <1>1, <1>3, <1>4 DEF EngineOnly, OnlyPage
<1> QED BY <1>4, <1>5, <1>6, <1>7

\* The letter l is behind a beginning of the text of c; no other text grows.
TypedIn(w, c, l, u) ==
  /\ Good(u) /\ \A x \in Contexts \ {c} : IsPrefix(Text(u, x), Text(w, x))
  /\ \E p \in Strings : IsPrefix(p, Text(w, c)) /\ Text(u, c) = p \o <<l>>

LEMMA TypedShown ==
    ASSUME NEW w, Sound(w), Good(w), NEW c \in Contexts, w.active = c, NEW l \in Letters,
           NEW v, v.doc = w.doc, v.input = Append(w.input, l), v.active = c, ~v.pending, PageFits(v),
           NEW u, Sound(u), u.active = c, ShowsInput(v, c, u)
    PROVE  TypedIn(w, c, l, u)
<1> DEFINE T == w.doc[c].text
           p == T \o w.input
<1>1. T \in Strings /\ w.input \in Words /\ w.input \in Strings /\ <<l>> \in Strings
  <2>1. l \in 0..MaxLetters
      BY TextAssumption DEF Letters
  <2> QED BY <2>1, SoundTypes, LettersAreText DEF Strings
<1>2. v.input = w.input \o <<l>>
    BY <1>1, AppendIsConcat DEF Words
<1>3. Good(u)
    BY ShownIsGood
<1>4. \A x \in Contexts \ {c} : Text(u, x) = Text(w, x)
    BY DEF ShowsInput, Text
<1>5. \A x \in Contexts \ {c} : IsPrefix(Text(u, x), Text(w, x))
    BY <1>4, TextType, PrefixOfItself DEF Strings
<1>6. Text(u, c) = T \o (w.input \o <<l>>)
    BY <1>2 DEF ShowsInput, Text
<1>7. IsPrefix(p, Text(w, c))
  <2>1. CASE w.input = <<>>
    <3>1. p = T
        BY <1>1, <2>1, ConcatEmptySeq DEF Strings
    <3>2. w.doc[c].comp \in Strings
        BY SoundTypes
    <3> HIDE DEF p
    <3> QED BY <1>1, <3>1, <3>2, PrefixOfLonger DEF Text, Strings
  <2>2. CASE w.input # <<>>
    <3>1. Text(w, c) = p
        BY <2>2 DEF Good, Text
    <3> QED BY <3>1, TextType, PrefixOfItself DEF Strings
  <2> QED BY <2>1, <2>2
<1>8. p \in Strings
    BY <1>1, PrefixOfLonger DEF Strings
<1>9. Text(u, c) = p \o <<l>>
  <2> HIDE DEF T
  <2> QED BY <1>1, <1>6, Associative
<1> HIDE DEF p
<1> QED BY <1>3, <1>5, <1>7, <1>8, <1>9 DEF TypedIn

\* From another field nothing else can be added.
LEMMA TypedAfter ==
    ASSUME NEW w, NEW z, Sound(w), Sound(z), NEW c \in Contexts, NEW l \in Letters,
           Shorter(w, z), NEW u, Sound(u), TypedIn(z, c, l, u)
    PROVE  TypedIn(w, c, l, u)
<1>1. \A x \in Contexts : /\ Text(w, x) \in Strings /\ Text(z, x) \in Strings /\ Text(u, x) \in Strings
                          /\ IsPrefix(Text(z, x), Text(w, x))
    BY TextType DEF Shorter
<1>2. \A x \in Contexts \ {c} : IsPrefix(Text(u, x), Text(w, x))
    BY <1>1, PrefixOfPrefix DEF TypedIn, Strings
<1>3. PICK p \in Strings : IsPrefix(p, Text(z, c)) /\ Text(u, c) = p \o <<l>>
    BY DEF TypedIn
<1>4. IsPrefix(p, Text(w, c))
    BY <1>1, <1>3, PrefixOfPrefix DEF Strings
<1> QED BY <1>2, <1>3, <1>4 DEF TypedIn

LEMMA OrderOfNumbers ==
    /\ \A i, j, k \in Nat : i <= j /\ j <= k => i <= k
    /\ \A i, j \in Nat : i <= j /\ j = 0 => i = 0
OBVIOUS

LEMMA LetterStep ==
    ASSUME TypeInv, NEW c \in Contexts, Letter(c)
    PROVE  /\ Sound(ts') /\ Len(ts'.input) <= Len(ts.input) + 1
           /\ ts.failures <= ts'.failures /\ Kept(ts, ts')
           /\ typed' = typed + 1 /\ typed' \in Letters /\ restarting' \in BOOLEAN
           /\ strayed' = strayed
           /\ ts'.failures = 0 /\ Good(ts) =>
                TypedIn(ts, c, typed + 1, ts') /\ (c = ts.active => LettersKept(ts, ts'))
<1> DEFINE l == typed + 1
           Recovered(w) ==
             IF w.input # <<>> /\ w.comp = NoContext /\ w.preedit = 0
               THEN {IF r.ok THEN [r.w EXCEPT !.pending = FALSE] ELSE r.w
                       : r \in UpdatePreedit(w, c, w.input)}
               ELSE {w}
           Queried(w) == UNION {IF v.ready THEN RefreshCandidates(v) ELSE {[v EXCEPT !.shown = NoPage]}
                                  : v \in InitializeRime([w EXCEPT !.input = Append(@, l)])}
           Shown(w) == {IF r.ok THEN r.w ELSE ClearCompositionState(r.w)
                          : r \in UpdatePreedit(w, c, w.input)}
<1>1. /\ l \in Letters /\ typed' = l /\ restarting' = restarting /\ strayed' = strayed
      /\ ts' \in UNION {Shown(w) : w \in UNION {Queried(w)
                   : w \in UNION {Recovered(w) : w \in Entered(ts, c)}}}
    BY DEF Letter, Becomes
<1>2. PICK y \in UNION {Queried(w) : w \in UNION {Recovered(w) : w \in Entered(ts, c)}} : ts' \in Shown(y)
    BY <1>1
<1>3. PICK w \in UNION {Recovered(x) : x \in Entered(ts, c)} : y \in Queried(w)
    BY <1>2
<1>4. PICK z \in Entered(ts, c) : w \in Recovered(z)
    BY <1>3
<1>5. /\ Sound(ts) /\ Len(ts.input) \in Nat /\ Len(ts.input) <= typed /\ typed \in 0..MaxLetters
      /\ typed \in Nat /\ ts.failures \in Nat
    BY ShortInput, SoundTypes, TextAssumption DEF TypeInv
<1>6. /\ Sound(z) /\ z.active = c /\ Len(z.input) <= Len(ts.input)
      /\ ts.failures <= z.failures /\ Kept(ts, z)
      /\ ts.active = c => z = ts
      /\ z.failures = 0 /\ Good(ts) => Good(z) /\ Shorter(ts, z)
    BY <1>4, <1>5, EnteredResults
<1>7. Len(z.input) \in Nat /\ Len(z.input) <= MaxLetters /\ z.failures \in Nat /\ z.input \in Words
    BY <1>5, <1>6, SoundTypes, TextAssumption
<1>8. /\ Sound(w) /\ w.active = c /\ w.input = z.input /\ z.failures <= w.failures /\ Kept(z, w)
      /\ Good(z) => w = z
  <2>1. CASE z.input # <<>> /\ z.comp = NoContext /\ z.preedit = 0
    <3>1. w \in Recovering(z, c)
        BY <1>4, <2>1 DEF Recovering
    <3>2. ~Good(z)
        BY <2>1, TextAssumption DEF Good
    <3> QED BY <1>6, <1>7, <3>1, <3>2, RecoveredResults
  <2>2. CASE ~(z.input # <<>> /\ z.comp = NoContext /\ z.preedit = 0)
    <3>1. w = z
        BY <1>4, <2>2
    <3> QED BY <1>6, <1>7, <3>1, SameIsKept
  <2> QED BY <2>1, <2>2
<1> DEFINE s == Append(w.input, l)
<1>9. s \in Words /\ Len(s) = Len(z.input) + 1
    BY <1>1, <1>7, <1>8, AppendProperties DEF Words
<1>10. PICK v \in InitializeRime([w EXCEPT !.input = s]) :
              y \in IF v.ready THEN RefreshCandidates(v) ELSE {[v EXCEPT !.shown = NoPage]}
  <2>1. [w EXCEPT !.input = Append(@, l)] = [w EXCEPT !.input = s]
      BY <1>8 DEF Sound, States
  <2> QED BY <1>3, <2>1
<1>11. ts' \in ShownPreedit(y, c)
    BY <1>2 DEF ShownPreedit
<1> HIDE DEF s, Shown, Queried, Recovered, l
<1>12. /\ Sound(y) /\ Kept(w, y) /\ y.input = s /\ w.failures <= y.failures
       /\ y.doc = w.doc /\ y.comp = w.comp /\ y.active = w.active /\ y.pending = w.pending
       /\ w.shown.of \in {<<>>, w.last} => PageFits(y)
    BY <1>8, <1>9, <1>10, QueriedResults
<1>13. Len(y.input) <= Len(ts.input) + 1 /\ Len(y.input) <= MaxLetters /\ Len(y.input) \in Nat
  <2>1. l \in 1 .. MaxLetters /\ l = typed + 1
      BY <1>1 DEF Letters, l
  <2> QED BY <1>5, <1>6, <1>7, <1>9, <1>12, <2>1, TextAssumption
<1>14. /\ Proceeds(y, ts') /\ Kept(y, ts')
       /\ ts'.failures = 0 /\ y.comp \in {NoContext, c} => ShowsInput(y, c, ts')
    BY <1>8, <1>11, <1>12, <1>13, ShownResults
<1>15. Sound(ts') /\ ts'.active = c /\ Len(ts'.input) <= Len(y.input) /\ y.failures <= ts'.failures
    BY <1>8, <1>12, <1>14 DEF Proceeds
<1>16. Len(ts'.input) \in Nat /\ ts'.failures \in Nat /\ y.failures \in Nat /\ w.failures \in Nat
    BY <1>8, <1>12, <1>15, SoundTypes
<1>17. Len(ts'.input) <= Len(ts.input) + 1 /\ ts.failures <= ts'.failures
       /\ (ts'.failures = 0 => z.failures = 0)
  <2>1. Len(ts'.input) <= Len(ts.input) + 1
    <3>1. Len(ts'.input) <= Len(y.input) /\ Len(y.input) <= Len(ts.input) + 1
        BY <1>13, <1>15
    <3>2. Len(ts.input) + 1 \in Nat
        BY <1>5
    <3> QED BY <1>13, <1>16, <3>1, <3>2, OrderOfNumbers
  <2>2. ts.failures <= z.failures /\ z.failures <= w.failures /\ w.failures <= y.failures
        /\ y.failures <= ts'.failures
      BY <1>6, <1>8, <1>12, <1>15
  <2>3. ts.failures <= ts'.failures /\ z.failures <= ts'.failures
    <3>1. w.failures <= ts'.failures
        BY <1>16, <2>2, OrderOfNumbers
    <3>2. z.failures <= ts'.failures
        BY <1>7, <1>16, <2>2, <3>1, OrderOfNumbers
    <3> QED BY <1>5, <1>7, <1>16, <2>2, <3>2, OrderOfNumbers
  <2>4. ts'.failures = 0 => z.failures = 0
      BY <1>7, <1>16, <2>3, OrderOfNumbers
  <2> QED BY <2>1, <2>3, <2>4
<1>18. Kept(ts, ts')
  <2>1. Kept(ts, w)
      BY <1>5, <1>6, <1>8, KeptTwice
  <2>2. Kept(ts, y)
      BY <1>5, <1>8, <1>12, <2>1, KeptTwice
  <2> QED BY <1>5, <1>12, <1>14, <1>15, <2>2, KeptTwice
<1>19. ASSUME ts'.failures = 0, Good(ts)
       PROVE  TypedIn(ts, c, l, ts') /\ (c = ts.active => LettersKept(ts, ts'))
  <2>1. Good(z) /\ Shorter(ts, z) /\ w = z
      BY <1>6, <1>8, <1>17, <1>19
  <2>2. y.comp \in {NoContext, c} /\ ~y.pending /\ PageFits(y)
      BY <1>8, <1>12, <2>1 DEF Good, PageFits
  <2>3. ShowsInput(y, c, ts')
      BY <1>14, <1>19, <2>2
  <2>4. /\ y.doc = z.doc /\ y.input = Append(z.input, l) /\ y.active = c
      BY <1>8, <1>12, <2>1 DEF s
  <2>5. TypedIn(z, c, l, ts')
      BY <1>1, <1>6, <1>15, <2>1, <2>2, <2>3, <2>4, TypedShown
  <2>6. TypedIn(ts, c, l, ts')
      BY <1>1, <1>5, <1>6, <1>15, <2>1, <2>5, TypedAfter
  <2>7. ASSUME c = ts.active
        PROVE  LettersKept(ts, ts')
    <3>1. ts'.input = Append(ts.input, l)
        BY <1>6, <2>3, <2>4, <2>7 DEF ShowsInput
    <3>2. ts.input \in Words
        BY <1>5, SoundTypes
    <3>3. ts'.input = ts.input \o <<l>> /\ <<l>> \in Words
        BY <1>1, <3>1, <3>2, AppendIsConcat DEF Words
    <3>4. IsPrefix(ts.input, ts'.input) /\ ts'.input \in Words
        BY <3>2, <3>3, PrefixOfLonger DEF Words
    <3>5. Range(ts.input) \subseteq Range(ts'.input)
        BY <3>2, <3>4, RangeOfPrefix DEF Words
    <3> QED BY <3>5 DEF LettersKept
  <2> QED BY <2>6, <2>7
<1> QED BY <1>1, <1>5, <1>15, <1>17, <1>18, <1>19 DEF l, TypeInv

-----------------------------------------------------------------------------
(* The order of the letters.                                               *)

Increasing(t, n) == /\ \A i, j \in 1..Len(t) : i < j => t[i] < t[j]
                    /\ \A i \in 1..Len(t) : t[i] <= n

Ordered(w, n) ==
  \A c \in Contexts :
    /\ Increasing(Text(w, c), n)
    /\ \A d \in Contexts \ {c} : Range(Text(w, c)) \cap Range(Text(w, d)) \subseteq {Own}

LEMMA PrefixIsIncreasing ==
    ASSUME NEW s \in Strings, NEW t \in Strings, IsPrefix(s, t), NEW n, Increasing(t, n)
    PROVE  Increasing(s, n)
<1>1. Len(s) \in Nat /\ Len(t) \in Nat
    BY LenProperties DEF Strings
<1>2. Len(s) <= Len(t) /\ \A i \in 1 .. Len(s) : s[i] = t[i]
    BY PrefixByLetter DEF Strings
<1>3. \A i \in 1 .. Len(s) : i \in 1 .. Len(t)
    BY <1>1, <1>2
<1> QED BY <1>2, <1>3 DEF Increasing

LEMMA ShorterIsOrdered ==
    ASSUME NEW w, NEW v, Sound(w), Sound(v), Shorter(w, v), NEW n, Ordered(w, n)
    PROVE  Ordered(v, n)
<1>1. \A x \in Contexts : /\ Text(w, x) \in Strings /\ Text(v, x) \in Strings
                          /\ IsPrefix(Text(v, x), Text(w, x))
    BY TextType DEF Shorter
<1>2. \A x \in Contexts : Range(Text(v, x)) \subseteq Range(Text(w, x))
    BY <1>1, RangeOfPrefix DEF Strings
<1>3. \A x \in Contexts : Increasing(Text(v, x), n)
    BY <1>1, PrefixIsIncreasing DEF Ordered
<1> QED BY <1>2, <1>3 DEF Ordered

\* A letter behind smaller ones.
LEMMA LetterBehind ==
    ASSUME NEW p \in Strings, NEW n \in Nat, n + 1 \in Letters, Increasing(p, n)
    PROVE  /\ Increasing(p \o <<n + 1>>, n + 1)
           /\ Range(p \o <<n + 1>>) = Range(p) \cup {n + 1}
<1> DEFINE l == n + 1
           t == Append(p, l)
<1>1. Len(p) \in Nat /\ l \in 0..MaxLetters /\ \A i \in 1 .. Len(p) : p[i] \in 0..MaxLetters
  <2>1. l \in 0..MaxLetters
      BY TextAssumption DEF Letters
  <2>2. Len(p) \in Nat
      BY LenProperties DEF Strings
  <2>3. \A i \in 1 .. Len(p) : p[i] \in 0..MaxLetters
      BY ElementOfSeq DEF Strings
  <2> QED BY <2>1, <2>2, <2>3
<1>2. t = p \o <<l>>
    BY <1>1, AppendIsConcat DEF Strings
<1>3. /\ t \in Strings /\ Len(t) = Len(p) + 1 /\ \A i \in 1 .. Len(p) : t[i] = p[i]
      /\ t[Len(p) + 1] = l
    BY <1>1, AppendProperties DEF Strings
<1> HIDE DEF t
<1>4. \A i \in 1 .. Len(t) : (i \in 1 .. Len(p) /\ t[i] = p[i]) \/ (i = Len(p) + 1 /\ t[i] = l)
    BY <1>1, <1>3
<1>5. Increasing(t, l)
  <2>1. \A i \in 1 .. Len(p) : p[i] <= n /\ p[i] < l /\ p[i] \in Nat
      BY <1>1, TextAssumption DEF Increasing
  <2>2. ASSUME NEW i \in 1 .. Len(t)
        PROVE  t[i] <= l
    <3>1. CASE i \in 1 .. Len(p) /\ t[i] = p[i]
        BY <2>1, <3>1
    <3>2. CASE t[i] = l
        BY <3>2
    <3> QED BY <1>4, <3>1, <3>2
  <2>3. ASSUME NEW i \in 1 .. Len(t), NEW j \in 1 .. Len(t), i < j
        PROVE  t[i] < t[j]
    <3>1. i \in 1 .. Len(p)
        BY <1>1, <1>3, <2>3
    <3>2. CASE j \in 1 .. Len(p)
        BY <1>3, <2>3, <3>1, <3>2 DEF Increasing
    <3>3. CASE j = Len(p) + 1
        BY <1>3, <2>1, <3>1, <3>3
    <3> QED BY <1>4, <3>2, <3>3
  <2> QED BY <2>2, <2>3 DEF Increasing
<1>6. Range(t) = Range(p) \cup {l}
  <2>1. Range(p) = {p[i] : i \in 1 .. Len(p)} /\ Range(t) = {t[i] : i \in 1 .. Len(t)}
      BY <1>3, RangeEquality DEF Strings
  <2>2. \A i \in 1 .. Len(p) : i \in 1 .. Len(t)
      BY <1>1, <1>3
  <2>3. Len(p) + 1 \in 1 .. Len(t)
      BY <1>1, <1>3
  <2> HIDE DEF l
  <2> QED BY <1>3, <1>4, <2>1, <2>2, <2>3
<1> QED BY <1>2, <1>5, <1>6

LEMMA TypedIsOrdered ==
    ASSUME NEW w, NEW u, Sound(w), Sound(u), NEW c \in Contexts, NEW n \in Nat, n + 1 \in Letters,
           Ordered(w, n), TypedIn(w, c, n + 1, u)
    PROVE  Ordered(u, n + 1)
<1> DEFINE l == n + 1
<1>1. \A x \in Contexts : /\ Text(w, x) \in Strings /\ Text(u, x) \in Strings
                          /\ Increasing(Text(w, x), n)
    BY TextType DEF Ordered
<1>2. PICK p \in Strings : IsPrefix(p, Text(w, c)) /\ Text(u, c) = p \o <<l>>
    BY DEF TypedIn
<1>3. Increasing(p, n) /\ Range(p) \subseteq Range(Text(w, c))
    BY <1>1, <1>2, PrefixIsIncreasing, RangeOfPrefix DEF Strings
<1>4. Increasing(Text(u, c), l) /\ Range(Text(u, c)) = Range(p) \cup {l}
    BY <1>2, <1>3, LetterBehind
<1>5. ASSUME NEW x \in Contexts \ {c}
      PROVE  /\ Increasing(Text(u, x), n) /\ Increasing(Text(u, x), l)
             /\ Range(Text(u, x)) \subseteq Range(Text(w, x)) /\ l \notin Range(Text(u, x))
  <2>1. IsPrefix(Text(u, x), Text(w, x))
      BY DEF TypedIn
  <2>2. Increasing(Text(u, x), n) /\ Range(Text(u, x)) \subseteq Range(Text(w, x))
      BY <1>1, <2>1, PrefixIsIncreasing, RangeOfPrefix DEF Strings
  <2> DEFINE t == Text(u, x)
  <2>3. t \in Strings /\ Range(t) = {t[i] : i \in 1 .. Len(t)}
        /\ \A i \in 1 .. Len(t) : t[i] \in 0..MaxLetters /\ t[i] <= n
    <3>1. t \in Strings
        BY <1>1
    <3>2. Increasing(t, n)
        BY <2>2
    <3> HIDE DEF t
    <3> QED BY <3>1, <3>2, RangeEquality, ElementOfSeq DEF Strings, Increasing
  <2> HIDE DEF t
  <2>4. \A i \in 1 .. Len(t) : t[i] <= l /\ t[i] # l
      BY <2>3, TextAssumption
  <2>5. Increasing(t, l) /\ l \notin Range(t)
    <3>1. Increasing(t, n)
        BY <2>2 DEF t
    <3> HIDE DEF l
    <3> QED BY <2>3, <2>4, <3>1 DEF Increasing
  <2> QED BY <2>2, <2>5 DEF t
<1>6. \A x \in Contexts : Increasing(Text(u, x), l)
    BY <1>4, <1>5
<1> HIDE DEF l
<1>7. ASSUME NEW x \in Contexts, NEW d \in Contexts \ {x}
      PROVE  Range(Text(u, x)) \cap Range(Text(u, d)) \subseteq {Own}
  <2>1. Range(Text(w, x)) \cap Range(Text(w, d)) \subseteq {Own}
      BY <1>7 DEF Ordered
  <2>2. CASE x = c
      BY <1>3, <1>4, <1>5, <2>1, <2>2
  <2>3. CASE d = c
      BY <1>3, <1>4, <1>5, <2>1, <2>3
  <2>4. CASE x # c /\ d # c
      BY <1>5, <2>1, <2>4
  <2> QED BY <2>2, <2>3, <2>4
<1> QED BY <1>6, <1>7 DEF Ordered, l

-----------------------------------------------------------------------------
(* The inductive invariant.                                                *)

ShownInv == ts.failures = 0 => Good(ts)

OrderInv == ts.failures = 0 /\ ~strayed => Ordered(ts, typed)

IInv == TypeInv /\ ShownInv /\ Measured(ts) /\ OrderInv

LEMMA InitIInv == Init => IInv
<1> SUFFICES ASSUME Init
             PROVE  IInv
    OBVIOUS
<1>1. <<Own>> \in Strings /\ <<>> \in Strings /\ <<>> \in Words /\ Len(<<>>) = 0
      /\ Len(<<Own>>) = 1 /\ <<Own>>[1] = 0
  <2>1. <<Own>> \in Strings
      BY TextAssumption DEF Strings, Own
  <2> QED BY <2>1, EmptyText DEF Own
<1>2. ts \in States
  <2>1. ts.doc \in Documents
      BY <1>1 DEF Init, Documents
  <2>2. NoPage \in [of : Words, gen : Nat]
      BY <1>1 DEF NoPage
  <2> QED BY <1>1, <2>1, <2>2, TextAssumption DEF Init, States, Fields
<1>3. Sound(ts)
    BY <1>2 DEF Init, Sound, NoPage
<1>4. TypeInv
  <2>1. ts.input = <<>> /\ typed = 0 /\ restarting = FALSE /\ strayed = FALSE
      BY DEF Init
  <2>2. Len(ts.input) = 0
      BY <2>1, EmptyText
  <2>3. Len(ts.input) <= typed /\ typed \in 0..MaxLetters
      BY <2>1, <2>2, TextAssumption
  <2> QED BY <1>3, <2>1, <2>3 DEF TypeInv
<1>5. Measured(ts)
    BY DEF Init, Measured
<1>6. Good(ts)
    BY <1>1 DEF Init, Good, PageFits, NoPage
<1>7. \A x \in Contexts : Text(ts, x) = <<Own>>
  <2> SUFFICES ASSUME NEW x \in Contexts
               PROVE  Text(ts, x) = <<Own>>
      OBVIOUS
  <2>1. ts.doc[x].text = <<Own>> /\ ts.doc[x].comp = <<>>
      BY DEF Init
  <2> QED BY <1>1, <2>1, ConcatEmptySeq DEF Text, Strings
<1>8. Increasing(<<Own>>, 0)
    BY <1>1 DEF Increasing, Own
<1>9. Range(<<Own>>) \subseteq {Own}
    BY DEF Range
<1>10. Ordered(ts, typed)
    BY <1>7, <1>8, <1>9 DEF Ordered, Init
<1> QED BY <1>4, <1>5, <1>6, <1>10 DEF IInv, ShownInv, OrderInv

LEMMA HarmlessKeepsIInv ==
    ASSUME IInv, HarmlessStep
    PROVE  IInv' /\ Kept(ts, ts') /\ ts.failures <= ts'.failures
<1>1. /\ Sound(ts) /\ Len(ts.input) <= typed /\ typed \in 0..MaxLetters
      /\ Harmless(ts, ts') /\ typed' = typed /\ strayed' = strayed
      /\ restarting' \in BOOLEAN /\ strayed' \in BOOLEAN
  <2>1. TypeInv
      BY DEF IInv
  <2> QED BY <2>1 DEF TypeInv, HarmlessStep
<1>2. Sound(ts') /\ Len(ts'.input) <= Len(ts.input) /\ ts.failures <= ts'.failures
    BY <1>1 DEF Harmless
<1>3. /\ Len(ts.input) \in Nat /\ Len(ts'.input) \in Nat
      /\ ts.failures \in Nat /\ ts'.failures \in Nat /\ typed \in Nat
    BY <1>1, <1>2, SoundTypes, TextAssumption
<1>4. Len(ts'.input) <= typed /\ (ts'.failures = 0 => ts.failures = 0)
    BY <1>1, <1>2, <1>3, OrderOfNumbers
<1>5. TypeInv'
    BY <1>1, <1>2, <1>4 DEF TypeInv
<1>6. ts'.failures = 0 => Good(ts) /\ Good(ts')
    BY <1>1, <1>4 DEF IInv, ShownInv, Harmless
<1>7. Kept(ts, ts') /\ Measured(ts)'
    BY <1>1 DEF IInv, Harmless, Kept
<1>8. OrderInv'
  <2>1. ASSUME ts'.failures = 0, ~strayed
        PROVE  Ordered(ts', typed)
    <3>1. Ordered(ts, typed) /\ Good(ts)
        BY <1>4, <1>6, <2>1 DEF IInv, OrderInv
    <3>2. Shorter(ts, ts')
        BY <1>1, <2>1, <3>1 DEF Harmless
    <3> QED BY <1>1, <1>2, <3>1, <3>2, ShorterIsOrdered
  <2> QED BY <1>1, <2>1 DEF OrderInv
<1>9. ShownInv'
    BY <1>6 DEF ShownInv
<1> QED BY <1>2, <1>5, <1>7, <1>8, <1>9 DEF IInv

LEMMA AstrayKeepsIInv ==
    ASSUME IInv, AstrayStep
    PROVE  IInv' /\ ts.failures <= ts'.failures
<1>1. /\ Sound(ts) /\ Len(ts.input) <= typed /\ typed \in 0..MaxLetters
      /\ Astray(ts, ts') /\ typed' = typed /\ restarting' \in BOOLEAN /\ strayed' = TRUE
  <2>1. TypeInv
      BY DEF IInv
  <2> QED BY <2>1 DEF TypeInv, AstrayStep
<1>2. Sound(ts') /\ Len(ts'.input) <= Len(ts.input) /\ ts.failures <= ts'.failures
    BY <1>1 DEF Astray
<1>3. /\ Len(ts.input) \in Nat /\ Len(ts'.input) \in Nat
      /\ ts.failures \in Nat /\ ts'.failures \in Nat /\ typed \in Nat
    BY <1>1, <1>2, SoundTypes, TextAssumption
<1>4. Len(ts'.input) <= typed /\ (ts'.failures = 0 => ts.failures = 0)
    BY <1>1, <1>2, <1>3, OrderOfNumbers
<1>5. TypeInv'
    BY <1>1, <1>2, <1>4 DEF TypeInv
<1>6. ShownInv'
    BY <1>1, <1>4 DEF IInv, ShownInv, Astray
<1>7. Measured(ts)'
    BY <1>1 DEF IInv, Astray
<1>8. OrderInv'
    BY <1>1 DEF OrderInv
<1> QED BY <1>2, <1>5, <1>6, <1>7, <1>8 DEF IInv

LEMMA LetterKeepsIInv ==
    ASSUME IInv, NEW c \in Contexts, Letter(c)
    PROVE  IInv' /\ Kept(ts, ts') /\ ts.failures <= ts'.failures
<1>1. /\ TypeInv /\ Sound(ts) /\ Len(ts.input) <= typed /\ typed \in 0..MaxLetters
    BY DEF IInv, TypeInv
<1>2. /\ Sound(ts') /\ Len(ts'.input) <= Len(ts.input) + 1
      /\ ts.failures <= ts'.failures /\ Kept(ts, ts')
      /\ typed' = typed + 1 /\ typed' \in Letters /\ restarting' \in BOOLEAN
      /\ strayed' = strayed /\ strayed' \in BOOLEAN
      /\ ts'.failures = 0 /\ Good(ts) => TypedIn(ts, c, typed + 1, ts')
    BY <1>1, LetterStep DEF TypeInv
<1>3. /\ Len(ts.input) \in Nat /\ Len(ts'.input) \in Nat
      /\ ts.failures \in Nat /\ ts'.failures \in Nat /\ typed \in Nat
    BY <1>1, <1>2, SoundTypes, TextAssumption
<1>4. Len(ts'.input) <= typed' /\ typed' \in 0..MaxLetters /\ (ts'.failures = 0 => ts.failures = 0)
  <2>1. Len(ts.input) + 1 <= typed' /\ Len(ts.input) + 1 \in Nat /\ typed' \in Nat
      BY <1>1, <1>2, <1>3
  <2>2. typed' \in 0..MaxLetters
      BY <1>2, TextAssumption DEF Letters
  <2> QED BY <1>2, <1>3, <2>1, <2>2, OrderOfNumbers
<1>5. TypeInv'
    BY <1>1, <1>2, <1>4 DEF TypeInv
<1>6. ts'.failures = 0 => TypedIn(ts, c, typed + 1, ts')
    BY <1>2, <1>4 DEF IInv, ShownInv
<1>7. Measured(ts)'
    BY <1>2 DEF IInv, Kept
<1>8. OrderInv'
  <2>1. ASSUME ts'.failures = 0, ~strayed
        PROVE  Ordered(ts', typed')
    <3>1. Ordered(ts, typed)
        BY <1>4, <2>1 DEF IInv, OrderInv
    <3>2. TypedIn(ts, c, typed + 1, ts')
        BY <1>6, <2>1
    <3>3. Ordered(ts', typed + 1)
        BY <1>1, <1>2, <1>3, <3>1, <3>2, TypedIsOrdered
    <3> QED BY <1>2, <3>3
  <2> QED BY <1>2, <2>1 DEF OrderInv
<1>9. ShownInv'
    BY <1>6 DEF ShownInv, TypedIn
<1> QED BY <1>2, <1>5, <1>7, <1>8, <1>9 DEF IInv

LEMMA NextKeepsIInv ==
    ASSUME IInv, Next
    PROVE  IInv' /\ (ModeKeyStrays \/ Kept(ts, ts')) /\ ts.failures <= ts'.failures
<1>1. TypeInv
    BY DEF IInv
<1>2. CASE \E c \in Contexts : Letter(c)
    BY <1>2, LetterKeepsIInv
<1>3. CASE HarmlessStep
    BY <1>3, HarmlessKeepsIInv
<1>4. ASSUME NEW c \in Contexts, Backspace(c) \/ Escape(c) \/ Return(c)
      PROVE  HarmlessStep
    BY <1>1, <1>4, BackspaceStep, EscapeStep, ReturnStep
<1>9. ASSUME NEW c \in Contexts, ModeKey(c)
      PROVE  HarmlessStep \/ (ModeKeyStrays /\ AstrayStep)
    BY <1>1, <1>9, ModeKeyStep DEF ModeKeyStrays
<1>10. CASE ModeKeyStrays /\ AstrayStep
    BY <1>10, AstrayKeepsIInv
<1>5. ASSUME NEW c \in Contexts, NEW k \in Letters, Select(c, k) \/ Punctuation(c, k)
      PROVE  HarmlessStep
    BY <1>1, <1>5, SelectStep, PunctuationStep
<1>6. ASSUME NEW k \in Letters, Click(k)
      PROVE  HarmlessStep
    BY <1>1, <1>6, ClickStep
<1>7. ASSUME OnCompositionTerminated \/ OnFocusLost \/ Deactivate \/ WarmUp
      PROVE  HarmlessStep
    BY <1>1, <1>7, OnCompositionTerminatedStep, OnFocusLostStep, DeactivateStep, WarmUpStep
<1>8. ASSUME \/ RestartRimeAndAlgorithmService \/ ShutdownRimeForUninstall
             \/ RestartRimeAndAlgorithmServiceAsync \/ ReloadRimeAndAlgorithmService
      PROVE  HarmlessStep
    BY <1>1, <1>8, RestartRimeAndAlgorithmServiceStep, ShutdownRimeForUninstallStep,
       RestartRimeAndAlgorithmServiceAsyncStep, ReloadRimeAndAlgorithmServiceStep
<1> QED BY <1>2, <1>3, <1>4, <1>5, <1>6, <1>7, <1>8, <1>9, <1>10 DEF Next

LEMMA IInvStep == IInv /\ [Next]_vars => IInv'
<1> SUFFICES ASSUME IInv, [Next]_vars
             PROVE  IInv'
    OBVIOUS
<1>1. CASE Next
    BY <1>1, NextKeepsIInv
<1>2. CASE UNCHANGED vars
    BY <1>2 DEF vars, IInv, TypeInv, ShownInv, OrderInv
<1> QED BY <1>1, <1>2

LEMMA IInvType == IInv => TypeOK
<1> SUFFICES ASSUME IInv
             PROVE  TypeOK
    OBVIOUS
<1>1. Sound(ts) /\ typed \in 0..MaxLetters /\ restarting \in BOOLEAN /\ strayed \in BOOLEAN
    BY DEF IInv, TypeInv
<1>2. /\ \A x \in Contexts : ts.doc[x].text \in Strings /\ ts.doc[x].comp \in Strings
      /\ ts.input \in Words /\ ts.comp \in Fields /\ ts.active \in Fields
      /\ ts.preedit \in 0..MaxLetters /\ ts.pending \in BOOLEAN
      /\ ts.shown \in [of : Words, gen : Nat] /\ ts.last \in Words /\ ts.ready \in BOOLEAN
      /\ ts.gen \in 0..MaxGen /\ ts.failures \in 0..MaxFailures /\ ts.undefined \in BOOLEAN
    BY <1>1, SoundTypes
<1>3. \A x \in Contexts : ts.doc[x].comp # <<>> => ts.comp = x
    BY <1>1 DEF Sound
<1>4. ts.shown.of \in Words /\ ts.shown.gen \in 0..ts.gen
    BY <1>1, <1>2, TextAssumption DEF Sound
<1> QED BY <1>1, <1>2, <1>3, <1>4 DEF TypeOK, Strings, Words, Fields

LEMMA IInvOrder == IInv => InOrder
<1> SUFFICES ASSUME IInv, ts.failures = 0, ~strayed
             PROVE  InOrder
    BY DEF InOrder
<1>1. Ordered(ts, typed)
    BY DEF IInv, OrderInv
<1> QED BY <1>1 DEF InOrder, Ordered, Increasing

LEMMA IInvShown == IInv => InputShown
BY DEF IInv, ShownInv, InputShown, Good, PageFits

\* The settled text of a state is a beginning of the text of the next.
LEMMA KeptIsText ==
    ASSUME NEW w, NEW v, Sound(w), Sound(v), Measured(w), Kept(w, v), NEW x \in Contexts
    PROVE  IsPrefix(Settled(w, x), Text(v, x))
<1>1. Measured(v) /\ IsPrefix(Settled(w, x), Settled(v, x))
    BY DEF Kept
<1>2. /\ Settled(w, x) \in Strings /\ Settled(v, x) \in Strings
      /\ IsPrefix(Settled(v, x), v.doc[x].text)
    BY <1>1, SettledIsPrefix
<1>3. v.doc[x].text \in Strings /\ v.doc[x].comp \in Strings
    BY SoundTypes
<1>4. Text(v, x) \in Strings /\ IsPrefix(v.doc[x].text, Text(v, x))
    BY <1>3, PrefixOfLonger DEF Text, Strings
<1>5. IsPrefix(Settled(w, x), v.doc[x].text)
    BY <1>1, <1>2, <1>3, PrefixOfPrefix DEF Strings
<1> QED BY <1>2, <1>3, <1>4, <1>5, PrefixOfPrefix DEF Strings

LEMMA CommitsStep ==
    ASSUME TypeInv, Commits, Good(ts), ts'.failures = 0
    PROVE  LettersKept(ts, ts')
<1>1. CASE \E k \in Letters : Click(k)
    BY <1>1, ClickStep
<1>2. ASSUME NEW c \in Contexts, c = ts.active, Letter(c) \/ Return(c) \/ ModeKey(c)
      PROVE  LettersKept(ts, ts')
    BY <1>2, LetterStep, ReturnStep, ModeKeyStep
<1>3. ASSUME NEW c \in Contexts, c = ts.active, NEW k \in Letters, Select(c, k)
      PROVE  LettersKept(ts, ts')
    BY <1>3, SelectStep
<1> QED BY <1>1, <1>2, <1>3 DEF Commits

LEMMA TextStep ==
    ASSUME IInv, Next
    PROVE  /\ ModeKeyStrays \/ \A c \in Contexts : IsPrefix(Settled(ts, c), Text(ts', c))
           /\ Commits /\ ts'.failures = 0 =>
                Range(ts.input) \subseteq
                  Range(ts'.input) \cup UNION {Range(Text(ts', c)) : c \in Contexts}
<1>1. IInv' /\ (ModeKeyStrays \/ Kept(ts, ts')) /\ ts.failures <= ts'.failures
    BY NextKeepsIInv
<1>2. /\ TypeInv /\ Sound(ts) /\ Measured(ts) /\ ShownInv /\ Sound(ts')
    BY <1>1 DEF IInv, TypeInv
<1>3. ModeKeyStrays \/ \A c \in Contexts : IsPrefix(Settled(ts, c), Text(ts', c))
    BY <1>1, <1>2, KeptIsText
<1>4. ASSUME Commits, ts'.failures = 0
      PROVE  LettersKept(ts, ts')
  <2>1. ts.failures \in Nat /\ ts'.failures \in Nat
      BY <1>2, SoundTypes
  <2>2. ts.failures = 0
      BY <1>1, <1>4, <2>1, OrderOfNumbers
  <2>3. Good(ts)
      BY <1>2, <2>2 DEF ShownInv
  <2> QED BY <1>2, <1>4, <2>3, CommitsStep
<1> QED BY <1>3, <1>4 DEF LettersKept

\* Every member of the service, every document, the letters typed and the
\* restart under way keep their types: no length, count or number of an engine
\* leaves its range, whatever is refused and whichever field a mode key is for.
THEOREM TypeCorrect == Spec => []TypeOK
<1>1. Init => IInv
    BY InitIInv
<1>2. IInv /\ [Next]_vars => IInv'
    BY IInvStep
<1>3. IInv => TypeOK
    BY IInvType
<1> QED BY <1>1, <1>2, <1>3, PTL DEF Spec

\* While nothing is refused and no mode key has come from another field than the
\* input's, letters come out of handlers, of partial commits and of restarts of
\* the engine in the order typed, once, and in one document.
THEOREM InOrderCorrect == Spec => []InOrder
<1>1. Init => IInv
    BY InitIInv
<1>2. IInv /\ [Next]_vars => IInv'
    BY IInvStep
<1>3. IInv => InOrder
    BY IInvOrder
<1> QED BY <1>1, <1>2, <1>3, PTL DEF Spec

\* While nothing is refused, composition_input_ is what the document shows as
\* preedit, preedit_length_ is its length, and the candidates are for it,
\* whichever field a mode key comes from.
THEOREM InputShownCorrect == Spec => []InputShown
<1>1. Init => IInv
    BY InitIInv
<1>2. IInv /\ [Next]_vars => IInv'
    BY IInvStep
<1>3. IInv => InputShown
    BY IInvShown
<1> QED BY <1>1, <1>2, <1>3, PTL DEF Spec

\* No step of the service, refused or not, removes text but the preedit of the
\* moment, but that of a mode key from another field than the input's
\* (tsf_text_service.cpp:9624), after which none does again; and while nothing
\* is refused, a key that commits drops no letter.
THEOREM TextKeptCorrect == Spec => TextKept
<1>1. Init => IInv
    BY InitIInv
<1>2. IInv /\ [Next]_vars => IInv'
    BY IInvStep
<1>3. IInv /\ [Next]_vars =>
        [/\ ModeKeyStrays \/ \A c \in Contexts : IsPrefix(Settled(ts, c), Text(ts', c))
         /\ Commits /\ ts'.failures = 0 =>
              Range(ts.input) \subseteq
                Range(ts'.input) \cup UNION {Range(Text(ts', c)) : c \in Contexts}]_vars
    BY TextStep
<1> QED BY <1>1, <1>2, <1>3, PTL DEF Spec, TextKept

-----------------------------------------------------------------------------
(* Shortcuts.                                                              *)

(* Looking a known word up in a table gives a result of the table.         *)
LEMMA ImageInResults ==
    ASSUME NEW table, NEW x \in Known(table)
    PROVE  Image(table, x) \in Results(table)
  <1>1. \E entry \in table : entry[1] = x
    BY DEF Known
  <1> QED BY <1>1 DEF Image, Results

LEMMA Singleton ==
    ASSUME NEW S, NEW x \in S
    PROVE  <<x>> \in Seq(S)
  OBVIOUS

(* Normalising a text gives a text.                                        *)
LEMMA NormalText ==
    ASSUME NEW text \in ShortcutText
    PROVE  NormalizeShortcutDisplay(text) \in ShortcutText
  <1> DEFINE n == NormalizeShortcutDisplay(text)
  <1>1. DOMAIN text = 1..Len(text) /\ Len(text) \in Nat
    BY DEF ShortcutText
  <1>2. ASSUME NEW i \in DOMAIN text
        PROVE  n[i] \in Token
    <2>1. text[i] \in Token
      BY <1>1 DEF ShortcutText
    <2> QED BY <2>1, ImageInResults DEF NormalizeShortcutDisplay, Token
  <1>3. n = [i \in 1..Len(text) |-> n[i]]
    BY <1>1 DEF NormalizeShortcutDisplay
  <1>4. n \in [1..Len(text) -> Token]
    BY <1>1, <1>2, <1>3
  <1> QED BY <1>1, <1>4 DEF ShortcutText

(* What a recorder spells is a text of the words it is given.              *)
LEMMA SpelledWords ==
    ASSUME NEW W, Modifiers \subseteq W, NEW held, NEW key \in W
    PROVE  Spelled(held, key) \in Seq(W)
  <1> DEFINE Part(m) == IF m \in held /\ m # key THEN <<m>> ELSE <<>>
             parts == Part("ctrl") \o Part("shift") \o Part("alt") \o Part("win")
  <1>1. ASSUME NEW m \in Modifiers
        PROVE  Part(m) \in Seq(W)
    <2>1. <<m>> \in Seq(W)
      BY Singleton
    <2>2. <<>> \in Seq(W)
      OBVIOUS
    <2> QED BY <2>1, <2>2
  <1>2. "ctrl" \in Modifiers /\ "shift" \in Modifiers /\ "alt" \in Modifiers
        /\ "win" \in Modifiers
    BY DEF Modifiers
  <1>3. <<key>> \in Seq(W)
    BY Singleton
  <1> HIDE DEF Part
  <1>4. parts \in Seq(W)
    BY <1>1, <1>2
  <1>5. parts \o <<key>> \in Seq(W)
    BY <1>3, <1>4
  <1> QED BY <1>5 DEF Spelled, Part

(* What the recorder writes is a text.                                     *)
LEMMA RecordedText ==
    ASSUME NEW k \in Key, NEW keys
    PROVE  RecordedShortcutFromKey(k, keys) \in ShortcutText
  <1>1. <<>> \in ShortcutText
    BY DEF ShortcutText
  <1>2. Modifiers \subseteq Token
    BY DEF Token
  <1>3. CASE IsModifier(k)
    BY <1>1, <1>2, <1>3, SpelledWords DEF RecordedShortcutFromKey, IsModifier, ShortcutText
  <1>4. CASE ~IsModifier(k) /\ k.name \in Known(ShortcutDisplayForKey)
    <2>1. Image(ShortcutDisplayForKey, k.name) \in Token
      BY <1>4, ImageInResults DEF Token
    <2> QED BY <1>2, <1>4, <2>1, SpelledWords DEF RecordedShortcutFromKey, ShortcutText
  <1> QED BY <1>1, <1>3, <1>4 DEF RecordedShortcutFromKey

LEMMA TooltipType ==
    ASSUME NEW f, NEW s, NEW text
    PROVE  ShortcutConflictTooltip(f, s, text) \in {"cleared", "conflict", "free"}
  BY DEF ShortcutConflictTooltip

(* A setting that the file does not have is read as the default given.     *)
LEMMA StoredText ==
    ASSUME NEW f \in [Settings -> ShortcutText \cup {Unset}], NEW s \in Settings, NEW d \in ShortcutText
    PROVE  Stored(f, s, d) \in ShortcutText
  BY ShortcutAssumption DEF Stored

LEMMA InForceText ==
    ASSUME NEW f \in [Settings -> ShortcutText \cup {Unset}], NEW s \in Settings
    PROVE  InForce(f, s) \in ShortcutText
  BY StoredText, ShortcutAssumption DEF InForce

(* The texts of recorders, and so those of restored files, are texts.      *)
LEMMA RecordableText == Recordable \subseteq ShortcutText
  <1> SUFFICES ASSUME NEW text \in Recordable
               PROVE  text \in ShortcutText
    OBVIOUS
  <1>1. Modifiers \subseteq Token
    BY DEF Token
  <1>2. CASE text = <<>>
    BY <1>2 DEF ShortcutText
  <1>3. ASSUME NEW m \in Modifiers, text = <<m>>
        PROVE  text \in ShortcutText
    BY <1>1, <1>3, Singleton DEF ShortcutText
  <1>4. ASSUME NEW held \in SUBSET Modifiers, NEW word \in Results(ShortcutDisplayForKey),
               text = Spelled(held, word)
        PROVE  text \in ShortcutText
    <2>1. word \in Token
      BY <1>4 DEF Token
    <2> QED BY <1>1, <1>4, <2>1, SpelledWords DEF ShortcutText
  <1> QED BY <1>2, <1>3, <1>4 DEF Recordable

LEMMA CodeIsKey ==
    ASSUME NEW k \in Keys, NEW code \in Codes(k)
    PROVE  code \in Key
  <1>1. k \in Key
    BY ShortcutAssumption
  <1>2. [name |-> k.name, side |-> "any"] \in Key
    BY <1>1 DEF Key
  <1> QED BY <1>1, <1>2 DEF Codes

-----------------------------------------------------------------------------
(* Types.                                                                  *)

WriterTypes ==
    /\ file \in [Settings -> ShortcutText \cup {Unset}]
    /\ lines \in [Settings -> ShortcutText \cup {Unset}]
    /\ failed \subseteq Settings
    /\ changes \in 0..MaxChanges

ServiceTypes ==
    /\ armed \in Key \cup {NoKey}
    /\ others \in BOOLEAN /\ ascii \in BOOLEAN /\ composing \in BOOLEAN

RecorderTypes ==
    /\ pending \in [Settings -> Modifiers \cup {"none"}]
    /\ label \in [Settings -> ShortcutText \cup {Prompt}]
    /\ tip \in [Settings -> {"cleared", "conflict", "free"}]
    /\ behind \subseteq Settings

LEMMA EmptyShortcut == <<>> \in ShortcutText
  BY DEF ShortcutText

LEMMA UnwrittenType ==
    ASSUME ShortcutsTypeOK, Unwritten
    PROVE  WriterTypes'
  BY DEF ShortcutsTypeOK, Unwritten, storeVars, WriterTypes

LEMMA SeenType ==
    ASSUME ShortcutsTypeOK
    PROVE  Seen \in [Settings -> ShortcutText \cup {Unset}]
  BY DEF ShortcutsTypeOK, Seen

LEMMA WriteType ==
    ASSUME ShortcutsTypeOK, NEW s \in Settings, NEW text \in ShortcutText, WriteStringSetting(s, text)
    PROVE  WriterTypes'
  <1>1. changes' \in 0..MaxChanges
    BY ShortcutAssumption DEF ShortcutsTypeOK, WriteStringSetting, StoreWrites, storeVars
  <1>2. failed' \subseteq Settings
    BY DEF ShortcutsTypeOK, WriteStringSetting, StoreWrites, storeVars
  <1>3. lines' \in [Settings -> ShortcutText \cup {Unset}]
    BY DEF ShortcutsTypeOK, WriteStringSetting, StoreWrites, storeVars
  <1>4. file' \in [Settings -> ShortcutText \cup {Unset}]
    BY <1>3 DEF ShortcutsTypeOK, WriteStringSetting, StoreWrites, storeVars
  <1> QED BY <1>1, <1>2, <1>3, <1>4 DEF WriterTypes

LEMMA ApplyType ==
    ASSUME ShortcutsTypeOK, NEW s \in Settings, NEW text \in ShortcutText, ApplyText(s, text)
    PROVE  /\ label' \in [Settings -> ShortcutText \cup {Prompt}]
           /\ tip' \in [Settings -> {"cleared", "conflict", "free"}]
           /\ behind' \subseteq Settings
  BY NormalText, TooltipType DEF ShortcutsTypeOK, ApplyText, ShowsAfter

LEMMA ToggleType ==
    ASSUME ShortcutsTypeOK, ToggleAsciiModeFromKey
    PROVE  ascii' \in BOOLEAN /\ composing' \in BOOLEAN
  <1>1. (~ascii) \in BOOLEAN
    OBVIOUS
  <1> QED BY <1>1 DEF ShortcutsTypeOK, ToggleAsciiModeFromKey

LEMMA HandleType ==
    ASSUME ShortcutsTypeOK, NEW k \in Keys, NEW code \in Codes(k), NEW held,
           HandleKey(k, code, held), Remembers(k, code, held)
    PROVE  ServiceTypes'
  <1>1. code \in Key
    BY CodeIsKey
  <1>2. armed' \in Key \cup {NoKey}
    BY <1>1 DEF ShortcutsTypeOK, HandleKey, Disarm
  <1>4. others' \in BOOLEAN
    BY DEF Remembers
  <1>3. ascii' \in BOOLEAN /\ composing' \in BOOLEAN
    BY ToggleType DEF ShortcutsTypeOK, HandleKey
  <1> QED BY <1>2, <1>3, <1>4 DEF ServiceTypes

LEMMA HeldType ==
    ASSUME ShortcutsTypeOK, NEW k \in Keys
    PROVE  Held(k) \subseteq {m \in Keys : IsModifier(m)}
  BY DEF ShortcutsTypeOK, Held

LEMMA Together ==
    ASSUME WriterTypes', ServiceTypes', RecorderTypes',
           focus' \in Settings \cup {"application", "elsewhere"},
           down' \subseteq {k \in Keys : IsModifier(k)}
    PROVE  ShortcutsTypeOK'
  BY DEF WriterTypes, ServiceTypes, RecorderTypes, ShortcutsTypeOK

LEMMA ServiceKept ==
    ASSUME ShortcutsTypeOK, UNCHANGED serviceVars
    PROVE  ServiceTypes'
  BY DEF ShortcutsTypeOK, serviceVars, ServiceTypes

LEMMA RecorderKept ==
    ASSUME ShortcutsTypeOK, UNCHANGED <<recorderVars, behind>>
    PROVE  RecorderTypes'
  BY DEF ShortcutsTypeOK, recorderVars, RecorderTypes

(* The types hold along every behaviour (hotkey_recorder_controls.cpp,     *)
(* tsf_text_service.cpp:6690-6775).                                        *)
THEOREM ShortcutsTypeCorrect == ShortcutsSpec => []ShortcutsTypeOK
  <1>1. ShortcutsInit => ShortcutsTypeOK
    <2> SUFFICES ASSUME ShortcutsInit PROVE ShortcutsTypeOK
      OBVIOUS
    <2>1. file \in [Settings -> ShortcutText \cup {Unset}]
      BY ShortcutAssumption DEF ShortcutsInit
    <2>2. label \in [Settings -> ShortcutText \cup {Prompt}]
      BY ShortcutAssumption, NormalText DEF ShortcutsInit
    <2>3. tip \in [Settings -> {"cleared", "conflict", "free"}]
      BY TooltipType DEF ShortcutsInit
    <2>4. changes \in 0..MaxChanges
      BY ShortcutAssumption DEF ShortcutsInit
    <2> QED BY <2>1, <2>2, <2>3, <2>4 DEF ShortcutsInit, ShortcutsTypeOK
  <1>2. ShortcutsTypeOK /\ [ShortcutsNext]_shortcutsVars => ShortcutsTypeOK'
    <2> SUFFICES ASSUME ShortcutsTypeOK, [ShortcutsNext]_shortcutsVars PROVE ShortcutsTypeOK'
      OBVIOUS
    <2>1. ASSUME NEW to \in Settings \cup {"application", "elsewhere"}, MoveFocus(to)
          PROVE  ShortcutsTypeOK'
      <3>1. label' \in [Settings -> ShortcutText \cup {Prompt}]
        <4>1. \A s \in Settings : NormalizeShortcutDisplay(InForce(Seen, s)) \in ShortcutText
          BY SeenType, NormalText, InForceText
        <4> QED BY <2>1, <4>1 DEF MoveFocus, ShortcutsTypeOK
      <3>2. tip' \in [Settings -> {"cleared", "conflict", "free"}]
        BY <2>1, TooltipType DEF MoveFocus, ShortcutsTypeOK
      <3>3. composing' \in BOOLEAN
        BY <2>1 DEF MoveFocus
      <3> QED BY <2>1, <3>1, <3>2, <3>3 DEF MoveFocus, ShortcutsTypeOK
    <2>2. ASSUME NEW s \in Settings, NEW text \in ShortcutText, ButtonWrites(s, text)
          PROVE  ShortcutsTypeOK'
      <3>1. WriterTypes'
        BY <2>2, WriteType DEF ButtonWrites
      <3>2. ServiceTypes'
        BY <2>2, ServiceKept DEF ButtonWrites
      <3>3. RecorderTypes'
        BY <2>2, ApplyType DEF ButtonWrites, RecorderTypes, ShortcutsTypeOK
      <3> QED BY <2>2, <3>1, <3>2, <3>3, Together DEF ButtonWrites, ShortcutsTypeOK
    <2>3. ASSUME NEW s \in Settings, NEW k \in Keys, RecorderKeyDown(s, k)
          PROVE  ShortcutsTypeOK'
      <3> DEFINE text == RecordedShortcutFromKey(k, Held(k))
      <3>1. text \in ShortcutText
        BY RecordedText, ShortcutAssumption
      <3>2. Stored(Seen, s, <<>>) \in ShortcutText
        BY SeenType, StoredText, EmptyShortcut
      <3>3. pending' \in [Settings -> Modifiers \cup {"none"}]
        BY <2>3 DEF RecorderKeyDown, ForgetPending, IsModifier, ShortcutsTypeOK
      <3> HIDE DEF text
      <3>4. WriterTypes' /\ RecorderTypes'
        <4>1. CASE Unwritten /\ ApplyText(s, Stored(Seen, s, <<>>))
          BY <3>2, <3>3, <4>1, UnwrittenType, ApplyType DEF RecorderTypes
        <4>2. CASE /\ Unwritten /\ UNCHANGED <<tip, behind>>
                   /\ label' = [label EXCEPT ![s] = IF text = <<>> THEN @ ELSE Prompt]
          BY <3>3, <4>2, UnwrittenType DEF RecorderTypes, ShortcutsTypeOK
        <4>3. CASE Unwritten /\ UNCHANGED <<label, tip, behind>>
          BY <3>3, <4>3, UnwrittenType DEF RecorderTypes, ShortcutsTypeOK
        <4>4. CASE WriteStringSetting(s, text) /\ ApplyText(s, text)
          BY <3>1, <3>3, <4>4, WriteType, ApplyType DEF RecorderTypes
        <4> QED BY <2>3, <4>1, <4>2, <4>3, <4>4 DEF RecorderKeyDown, text
      <3>5. ServiceTypes'
        BY <2>3, ServiceKept DEF RecorderKeyDown
      <3>6. focus' = focus /\ down' = Held(k)
        BY <2>3 DEF RecorderKeyDown
      <3> QED BY <3>4, <3>5, <3>6, HeldType, Together DEF ShortcutsTypeOK
    <2>4. ASSUME NEW s \in Settings, NEW k \in Keys, RecorderKeyUp(s, k)
          PROVE  ShortcutsTypeOK'
      <3>1. <<k.name>> \in ShortcutText
        <4>1. k.name \in Token
          BY <2>4 DEF RecorderKeyUp, ShortcutsTypeOK, IsModifier, Token
        <4> QED BY <4>1, Singleton DEF ShortcutText
      <3>2. WriterTypes' /\ RecorderTypes'
        <4>1. CASE /\ ForgetPending(s)
                   /\ WriteStringSetting(s, <<k.name>>) /\ ApplyText(s, <<k.name>>)
          BY <3>1, <4>1, WriteType, ApplyType DEF RecorderTypes, ForgetPending, ShortcutsTypeOK
        <4>2. CASE Unwritten /\ UNCHANGED <<recorderVars, behind>>
          BY <4>2, UnwrittenType, RecorderKept
        <4> QED BY <2>4, <4>1, <4>2 DEF RecorderKeyUp
      <3>3. ServiceTypes'
        BY <2>4, ServiceKept DEF RecorderKeyUp
      <3> QED BY <2>4, <3>2, <3>3, Together DEF RecorderKeyUp, ShortcutsTypeOK
    <2>5. ASSUME NEW k \in Keys, OnKeyDown(k)
          PROVE  ShortcutsTypeOK'
      <3>1. ServiceTypes'
        BY <2>5, HandleType, ServiceKept DEF OnKeyDown
      <3>2. WriterTypes' /\ RecorderTypes'
        BY <2>5, UnwrittenType, RecorderKept DEF OnKeyDown, recorderVars
      <3>3. focus' = focus /\ down' = Held(k)
        BY <2>5 DEF OnKeyDown
      <3> QED BY <3>1, <3>2, <3>3, HeldType, Together DEF ShortcutsTypeOK
    <2>6. ASSUME NEW k \in Keys, OnKeyUp(k)
          PROVE  ShortcutsTypeOK'
      <3>1. ServiceTypes'
        BY <2>6, ToggleType, ServiceKept DEF OnKeyUp, Disarm, ShortcutsTypeOK, ServiceTypes
      <3>2. WriterTypes' /\ RecorderTypes'
        BY <2>6, UnwrittenType, RecorderKept DEF OnKeyUp, recorderVars
      <3>3. focus' = focus /\ down' = down \ {k}
        BY <2>6 DEF OnKeyUp
      <3> QED BY <3>1, <3>2, <3>3, Together DEF ShortcutsTypeOK
    <2>7. ASSUME NEW k \in Keys, Elsewhere(k)
          PROVE  ShortcutsTypeOK'
      <3>1. WriterTypes' /\ ServiceTypes' /\ RecorderTypes'
        BY <2>7, UnwrittenType, RecorderKept, ServiceKept
           DEF Elsewhere, recorderVars, serviceVars
      <3>2. focus' = focus
        BY <2>7 DEF Elsewhere
      <3>3. down' \subseteq {m \in Keys : IsModifier(m)}
        BY <2>7 DEF Elsewhere, ShortcutsTypeOK
      <3> QED BY <3>1, <3>2, <3>3, Together DEF ShortcutsTypeOK
    <2>9. CASE WriteOtherSetting
      BY <2>9, ShortcutAssumption
         DEF WriteOtherSetting, recorderVars, serviceVars, ShortcutsTypeOK
    <2>10. CASE OtherWrites
      <3>1. file' \in [Settings -> ShortcutText \cup {Unset}]
        <4>1. Foreign \cup {Unset} \subseteq ShortcutText \cup {Unset}
          BY RecordableText, FallbackAssumption
        <4>2. CASE file' \in [Settings -> Foreign \cup {Unset}]
          BY <4>1, <4>2
        <4> QED BY <2>10, <4>2 DEF OtherWrites, ShortcutsTypeOK
      <3> QED BY <2>10, <3>1, ShortcutAssumption
                 DEF OtherWrites, recorderVars, serviceVars, ShortcutsTypeOK
    <2>8. CASE UNCHANGED shortcutsVars
      BY <2>8 DEF shortcutsVars, storeVars, recorderVars, serviceVars, ShortcutsTypeOK
    <2> QED
      BY <2>1, <2>2, <2>3, <2>4, <2>5, <2>6, <2>7, <2>8, <2>9, <2>10,
         EmptyShortcut, ShortcutAssumption
         DEF ShortcutsNext, Clear, Reset
  <1> QED BY <1>1, <1>2, PTL DEF ShortcutsSpec

(* A modifier that waits for its release to switch the mode has seen no    *)
(* other key since, whatever HandleKey answered to it: the history is kept *)
(* of the keys it handled, and it disarms the modifier at each other one   *)
(* (tsf_text_service.cpp:7470-7490).                                       *)
THEOREM ModifierAloneCorrect == ShortcutsSpec => []ModifierAlone
  <1>1. ShortcutsInit => ModifierAlone
    BY DEF ShortcutsInit, ModifierAlone
  <1>2. ModifierAlone /\ [ShortcutsNext]_shortcutsVars => ModifierAlone'
    <2> SUFFICES ASSUME ModifierAlone, [ShortcutsNext]_shortcutsVars PROVE ModifierAlone'
      OBVIOUS
    <2>1. CASE UNCHANGED <<armed, others>>
      BY <2>1 DEF ModifierAlone
    <2>2. CASE armed' = NoKey \/ others' = FALSE
      BY <2>2 DEF ModifierAlone
    <2>3. ASSUME NEW k \in Keys, OnKeyDown(k)
          PROVE  ModifierAlone'
      <3>1. ASSUME NEW code, HandleKey(k, code, Held(k)), Remembers(k, code, Held(k))
            PROVE  ModifierAlone'
        <4> DEFINE begins == ToolbarShortcutCommand(code, Held(k)) = "inputMode" /\ IsModifier(k)
        <4>1. CASE begins
          BY <3>1, <4>1 DEF Remembers, ModifierAlone
        <4>2. CASE armed' = NoKey
          BY <4>2 DEF ModifierAlone
        <4>3. CASE UNCHANGED armed /\ (armed = NoKey \/ ShortcutKeyEquals(armed, code))
          BY <3>1, <4>3 DEF Remembers, ModifierAlone
        <4>4. begins \/ armed' = NoKey
              \/ (UNCHANGED armed /\ (armed = NoKey \/ ShortcutKeyEquals(armed, code)))
          BY <3>1 DEF HandleKey, Disarm
        <4> QED BY <4>1, <4>2, <4>3, <4>4
      <3> QED BY <2>1, <2>3, <3>1 DEF OnKeyDown, serviceVars
    <2>4. ASSUME NEW k \in Keys, OnKeyUp(k)
          PROVE  UNCHANGED <<armed, others>> \/ armed' = NoKey
      BY <2>4 DEF OnKeyUp, Disarm, serviceVars
    <2> QED
      BY <2>1, <2>2, <2>3, <2>4
         DEF ShortcutsNext, MoveFocus, Clear, Reset, ButtonWrites, RecorderKeyDown, RecorderKeyUp,
             Elsewhere, WriteOtherSetting, OtherWrites, serviceVars, shortcutsVars
  <1> QED BY <1>1, <1>2, PTL DEF ShortcutsSpec

-----------------------------------------------------------------------------
(* The tables.                                                             *)

Functional(table) == \A e, f \in table : e[1] = f[1] => e[2] = f[2]
LEMMA ImageOfEntry ==
    ASSUME NEW table, Functional(table), NEW e \in table
    PROVE  e[1] \in Known(table) /\ Image(table, e[1]) = e[2]
  BY DEF Functional, Known, Image

LEMMA KeysFunctional == Functional(ShortcutKeyFromToken)
  BY DEF Functional, ShortcutKeyFromToken
LEMMA DisplayFunctional == Functional(ShortcutDisplayForKey)
  BY DEF Functional, ShortcutDisplayForKey
LEMMA ModifiersFunctional == Functional(ModifierTokens)
  BY DEF Functional, ModifierTokens

LEMMA ShownIsRead ==
    \A e \in ShortcutDisplayForKey : <<e[2], e[1]>> \in ShortcutKeyFromToken
  BY DEF ShortcutDisplayForKey, ShortcutKeyFromToken

LEMMA ModifierIsRead ==
    \A m \in Modifiers : <<m, m>> \in ModifierTokens
  BY DEF Modifiers, ModifierTokens

LEMMA NoKeyIsModifier ==
    \A e \in ShortcutDisplayForKey : e[2] \notin Known(ModifierTokens)
  BY DEF ShortcutDisplayForKey, ModifierTokens, Known

LEMMA NoneIsNoKey == \A e \in ShortcutDisplayForKey : e[1] # "none"
  BY DEF ShortcutDisplayForKey

LEMMA ModifierImage ==
    ASSUME NEW m \in Modifiers
    PROVE  m \in Known(ModifierTokens) /\ Image(ModifierTokens, m) = m
  <1>1. <<m, m>> \in ModifierTokens
    BY ModifierIsRead
  <1> QED BY <1>1, ImageOfEntry, ModifiersFunctional

(* The word a key is written as is read as that key, and as no modifier.   *)
LEMMA WordIsRead ==
    ASSUME NEW word \in Results(ShortcutDisplayForKey)
    PROVE  /\ word \in Known(ShortcutKeyFromToken) /\ word \notin Known(ModifierTokens)
           /\ word \notin Modifiers
           /\ Image(ShortcutKeyFromToken, word) # "none"
           /\ <<Image(ShortcutKeyFromToken, word), word>> \in ShortcutDisplayForKey
  <1>1. PICK e \in ShortcutDisplayForKey : e[2] = word
    BY DEF Results
  <1>2. <<e[2], e[1]>> \in ShortcutKeyFromToken
    BY ShownIsRead
  <1>3. word \in Known(ShortcutKeyFromToken) /\ Image(ShortcutKeyFromToken, word) = e[1]
    BY <1>1, <1>2, ImageOfEntry, KeysFunctional
  <1>4. e = <<e[1], e[2]>>
    BY DEF ShortcutDisplayForKey
  <1>5. word \notin Known(ModifierTokens)
    BY <1>1, NoKeyIsModifier
  <1> QED BY <1>1, <1>3, <1>4, <1>5, NoneIsNoKey, ModifierImage

-----------------------------------------------------------------------------
(* Texts and chords.                                                       *)

WordsOf(text) == {text[i] : i \in DOMAIN text}
LEMMA WordsOfBoth ==
    ASSUME NEW S, NEW a \in Seq(S), NEW b \in Seq(S)
    PROVE  WordsOf(a \o b) = WordsOf(a) \cup WordsOf(b)
  <1> DEFINE c == a \o b
  <1>1. DOMAIN a = 1..Len(a) /\ DOMAIN b = 1..Len(b) /\ DOMAIN c = 1..(Len(a) + Len(b))
        /\ Len(a) \in Nat /\ Len(b) \in Nat
    OBVIOUS
  <1>2. /\ \A i \in DOMAIN a : i \in DOMAIN c /\ c[i] = a[i]
        /\ \A i \in DOMAIN b : i + Len(a) \in DOMAIN c /\ c[i + Len(a)] = b[i]
    BY <1>1
  <1>3. \A i \in DOMAIN c : i \in DOMAIN a \/ i - Len(a) \in DOMAIN b
    BY <1>1
  <1>4. ASSUME NEW i \in DOMAIN c
        PROVE  c[i] \in WordsOf(a) \cup WordsOf(b)
    <2>1. CASE i \in DOMAIN a
      BY <1>2, <2>1 DEF WordsOf
    <2>2. CASE i - Len(a) \in DOMAIN b
      <3>1. (i - Len(a)) + Len(a) = i
        BY <1>1
      <3> QED BY <1>2, <2>2, <3>1 DEF WordsOf
    <2> QED BY <1>3, <2>1, <2>2
  <1>5. WordsOf(c) \subseteq WordsOf(a) \cup WordsOf(b)
    BY <1>4 DEF WordsOf
  <1>6. WordsOf(a) \subseteq WordsOf(c) /\ WordsOf(b) \subseteq WordsOf(c)
    BY <1>2 DEF WordsOf
  <1> QED BY <1>5, <1>6

(* A spelled text is its modifiers and then its key.                       *)
LEMMA SpelledParts ==
    ASSUME NEW held \in SUBSET Modifiers, NEW key, key \notin Modifiers
    PROVE  \E mods \in Seq(Modifiers) :
              Spelled(held, key) = mods \o <<key>> /\ WordsOf(mods) = held
  <1> DEFINE Part(m) == IF m \in held /\ m # key THEN <<m>> ELSE <<>>
             parts == Part("ctrl") \o Part("shift") \o Part("alt") \o Part("win")
  <1>1. ASSUME NEW m \in Modifiers
        PROVE  Part(m) \in Seq(Modifiers) /\ WordsOf(Part(m)) = {m} \cap held
    <2>1. <<m>> \in Seq(Modifiers) /\ WordsOf(<<m>>) = {m}
      BY DEF WordsOf
    <2>2. <<>> \in Seq(Modifiers) /\ WordsOf(<<>>) = {}
      BY DEF WordsOf
    <2> QED BY <2>1, <2>2
  <1>2. Modifiers = {"ctrl", "shift", "alt", "win"}
    BY DEF Modifiers
  <1> HIDE DEF Part
  <1> DEFINE two == Part("ctrl") \o Part("shift")
             three == two \o Part("alt")
  <1>3. two \in Seq(Modifiers) /\ WordsOf(two) = {"ctrl", "shift"} \cap held
    BY <1>1, <1>2, WordsOfBoth
  <1> HIDE DEF two
  <1>4. three \in Seq(Modifiers) /\ WordsOf(three) = {"ctrl", "shift", "alt"} \cap held
    BY <1>1, <1>2, <1>3, WordsOfBoth
  <1> HIDE DEF three
  <1>8. three \o Part("win") \in Seq(Modifiers)
        /\ WordsOf(three \o Part("win")) = {"ctrl", "shift", "alt", "win"} \cap held
    BY <1>1, <1>2, <1>4, WordsOfBoth
  <1>5. parts \in Seq(Modifiers) /\ WordsOf(parts) = {"ctrl", "shift", "alt", "win"} \cap held
    BY <1>8 DEF two, three
  <1>6. Spelled(held, key) = parts \o <<key>>
    BY DEF Spelled, Part
  <1>7. WordsOf(parts) = held
    BY <1>2, <1>5
  <1> QED BY <1>5, <1>6, <1>7

ChordOf(mods, name, side) == [valid |-> TRUE, mods |-> mods, key |-> [name |-> name, side |-> side]]

(* What is spelled is parsed back.                                         *)
LEMMA ParsesBack ==
    ASSUME NEW held \in SUBSET Modifiers, NEW word \in Results(ShortcutDisplayForKey)
    PROVE  ParseShortcutChord(Spelled(held, word))
             = ChordOf(held, Image(ShortcutKeyFromToken, word), "none")
  <1>1. PICK pre \in Seq(Modifiers) : Spelled(held, word) = pre \o <<word>> /\ WordsOf(pre) = held
    BY SpelledParts, WordIsRead
  <1> DEFINE text == pre \o <<word>>
             n == Len(pre)
             words == {text[i] : i \in DOMAIN text}
             places == {i \in DOMAIN text : text[i] \notin Known(ModifierTokens)}
  <1>2. n \in Nat /\ DOMAIN text = 1..(n + 1) /\ text[n + 1] = word
        /\ \A i \in 1..n : text[i] = pre[i] /\ pre[i] \in Modifiers
    OBVIOUS
  <1>3. words = held \cup {word}
    <2>1. WordsOf(<<word>>) = {word}
      BY DEF WordsOf
    <2>2. pre \in Seq(Modifiers \cup {word}) /\ <<word>> \in Seq(Modifiers \cup {word})
      OBVIOUS
    <2> DEFINE S == Modifiers \cup {word}
    <2>4. pre \in Seq(S) /\ <<word>> \in Seq(S)
      BY <2>2
    <2> HIDE DEF S
    <2>5. WordsOf(pre \o <<word>>) = WordsOf(pre) \cup WordsOf(<<word>>)
      BY <2>4, WordsOfBoth
    <2>3. WordsOf(text) = held \cup {word}
      BY <1>1, <2>1, <2>5
    <2> QED BY <2>3 DEF WordsOf
  <1>4. words \cap Known(ModifierTokens) = held
    BY <1>3, WordIsRead, ModifierImage
  <1>5. {Image(ModifierTokens, w) : w \in words \cap Known(ModifierTokens)} = held
    BY <1>4, ModifierImage
  <1>6. places = {n + 1}
    <2>1. \A i \in 1..n : text[i] \in Known(ModifierTokens)
      BY <1>2, ModifierImage
    <2>2. text[n + 1] \notin Known(ModifierTokens)
      BY <1>2, WordIsRead
    <2>3. \A i \in 1..(n + 1) : i \in 1..n \/ i = n + 1
      BY <1>2
    <2> HIDE DEF text
    <2> QED BY <1>2, <2>1, <2>2, <2>3
  <1>7. (CHOOSE i \in places : \A j \in places : j <= i) = n + 1
    BY <1>2, <1>6
  <1>8. words \subseteq Known(ModifierTokens) \cup Known(ShortcutKeyFromToken)
    BY <1>3, WordIsRead, ModifierImage
  <1>9. [name |-> Image(ShortcutKeyFromToken, word), side |-> "none"] # NoKey
    BY WordIsRead DEF NoKey
  <1> HIDE DEF words, places, text
  <1>10. ParseShortcutChord(text) = ChordOf(held, Image(ShortcutKeyFromToken, word), "none")
    BY <1>2, <1>5, <1>6, <1>7, <1>8, <1>9 DEF ParseShortcutChord, words, places, ChordOf
  <1> QED BY <1>1, <1>10 DEF text

LEMMA ModifierParsed ==
    ASSUME NEW m \in Modifiers
    PROVE  ParseShortcutChord(<<m>>) = ChordOf({m}, m, "any")
  <1> DEFINE text == <<m>>
             words == {text[i] : i \in DOMAIN text}
             places == {i \in DOMAIN text : text[i] \notin Known(ModifierTokens)}
  <1>1. words = {m} /\ places = {}
    BY ModifierImage
  <1>2. {Image(ModifierTokens, w) : w \in words \cap Known(ModifierTokens)} = {m}
    BY <1>1, ModifierImage
  <1>3. Cardinality({m}) = 1
    BY FS_Singleton
  <1>4. (CHOOSE x \in Modifiers : {m} = {x}) = m
    OBVIOUS
  <1>5. words \subseteq Known(ModifierTokens) \cup Known(ShortcutKeyFromToken)
    BY <1>1, ModifierImage
  <1>6. [name |-> m, side |-> "any"] # NoKey
    BY DEF NoKey
  <1> HIDE DEF words, places, text
  <1>7. ParseShortcutChord(text) = ChordOf({m}, m, "any")
    BY <1>1, <1>2, <1>3, <1>4, <1>5, <1>6 DEF ParseShortcutChord, words, places, ChordOf
  <1> QED BY <1>7 DEF text

LEMMA EmptyInvalid == ~ParseShortcutChord(<<>>).valid
  <1> DEFINE text == <<>>
             words == {text[i] : i \in DOMAIN text}
             places == {i \in DOMAIN text : text[i] \notin Known(ModifierTokens)}
             mods == {Image(ModifierTokens, w) : w \in words \cap Known(ModifierTokens)}
  <1>1. words = {} /\ places = {} /\ mods = {}
    OBVIOUS
  <1>2. Cardinality(mods) # 1
    BY <1>1, FS_EmptySet
  <1> HIDE DEF text, words, places, mods
  <1>3. ParseShortcutChord(text) = [valid |-> NoKey # NoKey, mods |-> mods, key |-> NoKey]
    BY <1>1, <1>2 DEF ParseShortcutChord, words, places, mods
  <1>4. ParseShortcutChord(text).valid = (NoKey # NoKey)
    BY <1>3
  <1> QED BY <1>4, Zenon DEF text

LEMMA ChordsApart ==
    ASSUME NEW a, NEW b, NEW c, NEW d, NEW e, NEW f, ChordOf(a, b, c) = ChordOf(d, e, f)
    PROVE  a = d /\ b = e /\ c = f
  <1>1. /\ ChordOf(a, b, c).mods = a /\ ChordOf(a, b, c).key = [name |-> b, side |-> c]
        /\ ChordOf(d, e, f).mods = d /\ ChordOf(d, e, f).key = [name |-> e, side |-> f]
    BY DEF ChordOf
  <1>2. [name |-> b, side |-> c] = [name |-> e, side |-> f]
    BY <1>1
  <1> QED BY <1>1, <1>2

(* Two texts of recorders that mean the same chord are the same text.      *)
LEMMA SameChordSameText ==
    ASSUME NEW x \in Recordable, NEW y \in Recordable,
           ParseShortcutChord(x).valid, ParseShortcutChord(x) = ParseShortcutChord(y)
    PROVE  x = y /\ x # <<>>
  <1> DEFINE Plain(text, m) == m \in Modifiers /\ text = <<m>>
             Full(text, held, word) ==
                /\ held \in SUBSET Modifiers /\ word \in Results(ShortcutDisplayForKey)
                /\ text = Spelled(held, word)
  <1>1. \A text \in Recordable : \/ text = <<>>
                                 \/ \E m : Plain(text, m)
                                 \/ \E held, word : Full(text, held, word)
    BY DEF Recordable
  <1>2. x # <<>> /\ y # <<>>
    BY EmptyInvalid
  <1>3. ASSUME NEW text, NEW m, Plain(text, m)
        PROVE  ParseShortcutChord(text) = ChordOf({m}, m, "any")
    BY <1>3, ModifierParsed
  <1>4. ASSUME NEW text, NEW held, NEW word, Full(text, held, word)
        PROVE  ParseShortcutChord(text)
                 = ChordOf(held, Image(ShortcutKeyFromToken, word), "none")
    BY <1>4, ParsesBack
  <1>5. ASSUME NEW m, NEW n, Plain(x, m), Plain(y, n)
        PROVE  x = y
    <2>1. ChordOf({m}, m, "any") = ChordOf({n}, n, "any")
      BY <1>3, <1>5
    <2>2. m = n
      BY <2>1, ChordsApart
    <2> QED BY <1>5, <2>2
  <1>6. ASSUME NEW m, NEW held, NEW word, NEW a, NEW b, Plain(a, m), Full(b, held, word),
               ParseShortcutChord(a) = ParseShortcutChord(b)
        PROVE  FALSE
    <2> HIDE DEF Plain, Full
    <2>1. ChordOf({m}, m, "any") = ChordOf(held, Image(ShortcutKeyFromToken, word), "none")
      BY <1>3, <1>4, <1>6
    <2> QED BY <2>1, ChordsApart
  <1>7. ASSUME NEW g, NEW v, NEW h, NEW w, Full(x, g, v), Full(y, h, w)
        PROVE  x = y
    <2>1. ChordOf(g, Image(ShortcutKeyFromToken, v), "none")
            = ChordOf(h, Image(ShortcutKeyFromToken, w), "none")
      <3> HIDE DEF Plain, Full
      <3> QED BY <1>4, <1>7
    <2>2. g = h /\ Image(ShortcutKeyFromToken, v) = Image(ShortcutKeyFromToken, w)
      BY <2>1, ChordsApart
    <2>3. v = w
      BY <1>7, <2>2, WordIsRead, DisplayFunctional DEF Functional
    <2> QED BY <1>7, <2>2, <2>3
  <1> HIDE DEF Plain, Full
  <1> QED BY <1>1, <1>2, <1>5, <1>6, <1>7

-----------------------------------------------------------------------------
(* What a step does to what the recorders show.                            *)

(* What the store has and the file has not is a change that was not saved, *)
(* and its recorder shows it.                                              *)
SavedInv == \A s \in Settings : lines[s] # file[s] => s \in failed

LEMMA StoreSaves ==
    ASSUME ShortcutsTypeOK, SavedInv, NEW s \in Settings, NEW text, WriteStringSetting(s, text)
    PROVE  SavedInv'
  <1>1. CASE UNCHANGED <<file, lines, failed>>
    BY <1>1 DEF SavedInv
  <1>2. CASE file' = lines'
    BY <1>2 DEF SavedInv
  <1>3. CASE lines' \in {lines, [lines EXCEPT ![s] = text]} /\ file' = file /\ failed' = failed \cup {s}
    BY <1>3 DEF SavedInv, ShortcutsTypeOK
  <1> QED BY <1>1, <1>2, <1>3 DEF WriteStringSetting, StoreWrites, storeVars

LEMMA SavedKept ==
    ASSUME ShortcutsTypeOK, SavedInv, [ShortcutsNext]_shortcutsVars
    PROVE  SavedInv'
  <1>1. CASE UNCHANGED <<file, lines, failed>>
    BY <1>1 DEF SavedInv
  <1>2. CASE file' = lines'
    BY <1>2 DEF SavedInv
  <1>3. ASSUME NEW to, MoveFocus(to)
        PROVE  SavedInv'
    BY <1>3 DEF MoveFocus, SavedInv
  <1>4. ASSUME NEW s \in Settings, NEW text, WriteStringSetting(s, text)
        PROVE  SavedInv'
    BY <1>4, StoreSaves
  <1>5. ASSUME Unwritten
        PROVE  SavedInv'
    BY <1>1, <1>5 DEF Unwritten, storeVars
  <1>6. ASSUME NEW s \in Settings, NEW k \in Keys, RecorderKeyDown(s, k) \/ RecorderKeyUp(s, k)
        PROVE  SavedInv'
    BY <1>4, <1>5, <1>6 DEF RecorderKeyDown, RecorderKeyUp
  <1>7. ASSUME NEW k \in Keys, OnKeyDown(k) \/ OnKeyUp(k) \/ Elsewhere(k)
        PROVE  SavedInv'
    BY <1>5, <1>7 DEF OnKeyDown, OnKeyUp, Elsewhere
  <1>8. ASSUME NEW s \in Settings, Clear(s) \/ Reset(s)
        PROVE  SavedInv'
    BY <1>4, <1>8 DEF Clear, Reset, ButtonWrites
  <1>9. CASE WriteOtherSetting \/ OtherWrites
    BY <1>2, <1>9 DEF WriteOtherSetting, OtherWrites
  <1>10. CASE UNCHANGED shortcutsVars
    BY <1>1, <1>10 DEF shortcutsVars, storeVars
  <1> QED BY <1>3, <1>6, <1>7, <1>8, <1>9, <1>10 DEF ShortcutsNext

(* A recorder is left alone: it shows the same, and when it is up to date  *)
(* then it was before, and its setting is unchanged.                       *)
Untouched(t) ==
    /\ label'[t] = label[t] /\ tip'[t] = tip[t]
    /\ UpToDate(t)' => UpToDate(t) /\ file'[t] = file[t]

\* Every recorder is left alone, or every one but that of s.
Quiet == focus' = focus /\ \A t \in Settings : Untouched(t)
OthersQuiet(s) == focus' = focus /\ \A t \in Settings \ {s} : Untouched(t)

LEMMA WriteIsOwn ==
    ASSUME ShortcutsTypeOK, SavedInv, NEW s \in Settings, NEW text,
           WriteStringSetting(s, text), ApplyText(s, text), focus' = focus
    PROVE  OthersQuiet(s)
  <1> SUFFICES ASSUME NEW t \in Settings \ {s}
               PROVE  Untouched(t)
    BY DEF OthersQuiet
  <1>1. label'[t] = label[t] /\ tip'[t] = tip[t] /\ (t \in behind => t \in behind')
    BY DEF ApplyText, ShowsAfter, ShortcutsTypeOK
  <1>2. t \in failed => t \in failed'
    BY DEF WriteStringSetting, StoreWrites, storeVars
  <1>3. file'[t] = file[t] \/ file'[t] = lines[t]
    BY DEF WriteStringSetting, StoreWrites, storeVars, ShortcutsTypeOK
  <1> QED BY <1>1, <1>2, <1>3 DEF Untouched, UpToDate, SavedInv

LEMMA UnwrittenIsOwn ==
    ASSUME ShortcutsTypeOK, NEW s \in Settings, Unwritten, focus' = focus,
           \A t \in Settings \ {s} : label'[t] = label[t] /\ tip'[t] = tip[t],
           behind \ {s} \subseteq behind'
    PROVE  OthersQuiet(s)
  BY DEF Unwritten, storeVars, OthersQuiet, Untouched, UpToDate

LEMMA DownIsOwn ==
    ASSUME ShortcutsTypeOK, SavedInv, NEW s \in Settings, NEW k \in Keys, RecorderKeyDown(s, k)
    PROVE  OthersQuiet(s)
  <1> DEFINE text == RecordedShortcutFromKey(k, Held(k))
  <1>1. focus' = focus
    BY DEF RecorderKeyDown
  <1> HIDE DEF text
  <1>2. CASE Unwritten /\ ApplyText(s, Stored(Seen, s, <<>>))
    BY <1>1, <1>2, UnwrittenIsOwn DEF ApplyText, ShowsAfter, ShortcutsTypeOK
  <1>3. CASE /\ Unwritten /\ UNCHANGED <<tip, behind>>
             /\ label' = [label EXCEPT ![s] = IF text = <<>> THEN @ ELSE Prompt]
    BY <1>1, <1>3, UnwrittenIsOwn DEF ShortcutsTypeOK
  <1>4. CASE Unwritten /\ UNCHANGED <<label, tip, behind>>
    BY <1>1, <1>4, UnwrittenIsOwn
  <1>5. CASE WriteStringSetting(s, text) /\ ApplyText(s, text)
    BY <1>1, <1>5, WriteIsOwn
  <1> QED BY <1>2, <1>3, <1>4, <1>5 DEF RecorderKeyDown, text

LEMMA UpIsOwn ==
    ASSUME ShortcutsTypeOK, SavedInv, NEW s \in Settings, NEW k \in Keys, RecorderKeyUp(s, k)
    PROVE  OthersQuiet(s)
  <1>1. focus' = focus
    BY DEF RecorderKeyUp
  <1>2. CASE WriteStringSetting(s, <<k.name>>) /\ ApplyText(s, <<k.name>>)
    BY <1>1, <1>2, WriteIsOwn
  <1>3. CASE Unwritten /\ UNCHANGED <<recorderVars, behind>>
    BY <1>1, <1>3, UnwrittenIsOwn DEF recorderVars
  <1> QED BY <1>2, <1>3 DEF RecorderKeyUp

(* A write that is not of the page: what it changes for a recorder was not *)
(* saved before, or is another program's.                                  *)
LEMMA OutsideIsQuiet ==
    ASSUME ShortcutsTypeOK, SavedInv, WriteOtherSetting \/ OtherWrites
    PROVE  Quiet
  <1> SUFFICES ASSUME NEW t \in Settings
               PROVE  Untouched(t)
    BY DEF WriteOtherSetting, OtherWrites, Quiet
  <1>1. label'[t] = label[t] /\ tip'[t] = tip[t] /\ failed' = failed /\ behind \subseteq behind'
    BY DEF WriteOtherSetting, OtherWrites, recorderVars
  <1>2. CASE WriteOtherSetting
    BY <1>1, <1>2 DEF WriteOtherSetting, Untouched, UpToDate, SavedInv
  <1>3. CASE OtherWrites
    <2>1. file'[t] # file[t] => t \in behind'
      BY <1>3 DEF OtherWrites
    <2> QED BY <1>1, <2>1 DEF Untouched, UpToDate
  <1> QED BY <1>2, <1>3

(* Every step moves the focus, writes from a button, is a key in a         *)
(* recorder, or is quiet.                                                  *)
LEMMA StepsOfNext ==
    ASSUME ShortcutsTypeOK, SavedInv, [ShortcutsNext]_shortcutsVars
    PROVE  \/ \E to \in Settings \cup {"application", "elsewhere"} : MoveFocus(to)
           \/ \E s \in Settings : \E text \in {<<>>, Fallback[s]} : ButtonWrites(s, text)
           \/ \E s \in Settings : focus = s /\ OthersQuiet(s)
           \/ Quiet
  <1>1. CASE UNCHANGED shortcutsVars
    BY <1>1 DEF shortcutsVars, storeVars, recorderVars, Quiet, Untouched, UpToDate
  <1>2. ASSUME NEW k \in Keys, OnKeyDown(k) \/ OnKeyUp(k) \/ Elsewhere(k)
        PROVE  Quiet
    <2>1. Unwritten /\ UNCHANGED <<focus, recorderVars, behind>>
      BY <1>2 DEF OnKeyDown, OnKeyUp, Elsewhere
    <2> QED BY <2>1 DEF recorderVars, Unwritten, storeVars, Quiet, Untouched, UpToDate
  <1>3. ASSUME NEW s \in Settings, NEW k \in Keys, RecorderKeyDown(s, k) \/ RecorderKeyUp(s, k)
        PROVE  focus = s /\ OthersQuiet(s)
    BY <1>3, DownIsOwn, UpIsOwn DEF RecorderKeyDown, RecorderKeyUp
  <1>4. ASSUME NEW s \in Settings, Clear(s) \/ Reset(s)
        PROVE  \E text \in {<<>>, Fallback[s]} : ButtonWrites(s, text)
    BY <1>4 DEF Clear, Reset
  <1> QED BY <1>1, <1>2, <1>3, <1>4, OutsideIsQuiet DEF ShortcutsNext

-----------------------------------------------------------------------------
(* Labels.                                                                 *)

LEMMA InForceKept ==
    ASSUME NEW t \in Settings, file'[t] = file[t]
    PROVE  InForce(file', t) = InForce(file, t)
  BY DEF InForce, Stored

LEMMA NormalEmpty == NormalizeShortcutDisplay(<<>>) = <<>>
  BY DEF NormalizeShortcutDisplay

\* What the application reads of a setting that was saved is in the file.
LEMMA SeenSaved ==
    ASSUME SavedInv, NEW s \in Settings, s \notin failed
    PROVE  Seen[s] = file[s]
  BY DEF SavedInv, Seen

LabelTrue(s) == AtRest(s) \/ (file[s] = Unset /\ label[s] = <<>>)

(* What the button wrote is in force, or the write failed, or there was    *)
(* nothing to clear.                                                       *)
LEMMA WrittenShows ==
    ASSUME ShortcutsTypeOK, SavedInv, NEW s \in Settings, NEW text \in ShortcutText,
           WriteStringSetting(s, text), ApplyText(s, text), s \notin failed'
    PROVE  \/ label'[s] = NormalizeShortcutDisplay(InForce(file', s))
           \/ file'[s] = Unset /\ label'[s] = <<>>
  <1>1. label'[s] = NormalizeShortcutDisplay(text)
    BY DEF ApplyText, ShowsAfter, ShortcutsTypeOK
  <1>2. CASE lines' = [lines EXCEPT ![s] = text] /\ file' = lines'
    <2>1. file'[s] = text /\ text # Unset
      BY <1>2, ShortcutAssumption DEF ShortcutsTypeOK
    <2> QED BY <1>1, <2>1 DEF InForce, Stored
  <1>3. CASE Stored(Seen, s, <<>>) = text /\ UNCHANGED <<file, lines, failed>>
    <2>1. Seen[s] = file[s]
      BY <1>3, SeenSaved
    <2>2. Stored(file, s, <<>>) = text /\ file'[s] = file[s]
      BY <1>3, <2>1 DEF Stored
    <2> QED BY <1>1, <2>2, NormalEmpty DEF InForce, Stored
  <1> QED BY <1>2, <1>3 DEF WriteStringSetting, StoreWrites, storeVars

(* Labels tell the truth (hotkey_recorder_controls.cpp:83-169): a recorder *)
(* without the focus shows the shortcut in force, unless its last change   *)
(* was not saved, another program has changed the setting, or it cleared a *)
(* setting that was never written.                                         *)
THEOREM LabelsHonestCorrect == ShortcutsSpec => []LabelsHonest
  <1>1. ShortcutsInit => SavedInv /\ LabelsHonest
    <2> SUFFICES ASSUME ShortcutsInit
                 PROVE  SavedInv /\ \A s \in Settings : AtRest(s)
      BY DEF LabelsHonest
    <2>1. \A s \in Settings : InForce(file, s) = Fallback[s]
      BY DEF ShortcutsInit, InForce, Stored
    <2>2. \A s \in Settings : focus # s
      BY ShortcutAssumption DEF ShortcutsInit
    <2>3. SavedInv
      BY DEF ShortcutsInit, SavedInv
    <2> QED BY <2>1, <2>2, <2>3 DEF ShortcutsInit, AtRest
  <1>2. ShortcutsTypeOK /\ SavedInv /\ LabelsHonest /\ [ShortcutsNext]_shortcutsVars
            => SavedInv' /\ LabelsHonest'
    <2> SUFFICES ASSUME ShortcutsTypeOK, SavedInv, LabelsHonest, [ShortcutsNext]_shortcutsVars
                 PROVE  LabelsHonest'
      BY SavedKept
    <2>0. SavedInv'
      BY SavedKept
    <2>1. ASSUME NEW t \in Settings, Untouched(t), focus' = focus, focus # t, UpToDate(t)'
          PROVE  LabelTrue(t)'
      <3>1. UpToDate(t) /\ file'[t] = file[t] /\ label'[t] = label[t]
        BY <2>1 DEF Untouched
      <3>2. InForce(file', t) = InForce(file, t)
        BY <3>1, InForceKept
      <3>3. AtRest(t) \/ (file[t] = Unset /\ label[t] = <<>>)
        BY <2>1, <3>1 DEF LabelsHonest
      <3> QED BY <2>1, <3>1, <3>2, <3>3 DEF AtRest, LabelTrue
    <2>2. ASSUME NEW to \in Settings \cup {"application", "elsewhere"}, MoveFocus(to),
                 NEW s \in Settings, focus' # s, UpToDate(s)'
          PROVE  LabelTrue(s)'
      <3>1. file' = file /\ lines' = lines /\ focus' = to
        BY <2>2 DEF MoveFocus
      <3>2. CASE s = focus
        <4>1. label'[s] = NormalizeShortcutDisplay(InForce(Seen, s))
          BY <2>2, <3>1, <3>2 DEF MoveFocus
        <4>2. lines[s] = file[s]
          BY <2>0, <2>2, <3>1 DEF SavedInv, UpToDate
        <4>3. InForce(Seen, s) = InForce(file, s)
          BY <4>2 DEF Seen, InForce, Stored
        <4> QED BY <2>2, <3>1, <4>1, <4>3 DEF AtRest, LabelTrue
      <3>3. CASE s # focus
        <4>1. label'[s] = label[s] /\ UpToDate(s)
          BY <2>2, <3>1, <3>3 DEF MoveFocus, UpToDate
        <4> QED BY <2>2, <3>1, <3>3, <4>1 DEF LabelsHonest, AtRest, LabelTrue
      <3> QED BY <3>2, <3>3
    <2>3. ASSUME NEW s \in Settings, NEW text \in {<<>>, Fallback[s]}, ButtonWrites(s, text)
          PROVE  OthersQuiet(s) /\ (focus # s /\ UpToDate(s)' => LabelTrue(s)')
      <3>1. text \in ShortcutText
        BY EmptyShortcut, ShortcutAssumption
      <3>2. WriteStringSetting(s, text) /\ ApplyText(s, text) /\ focus' = focus
        BY <2>3 DEF ButtonWrites
      <3>3. OthersQuiet(s)
        BY <3>2, WriteIsOwn
      <3>4. UpToDate(s)' => s \notin failed'
        BY DEF UpToDate
      <3> QED BY <3>1, <3>2, <3>3, <3>4, WrittenShows DEF AtRest, LabelTrue
    <2>4. LabelsHonest' <=> \A s \in Settings : focus' # s /\ UpToDate(s)' => LabelTrue(s)'
      BY DEF LabelsHonest, LabelTrue
    <2>5. ASSUME NEW s \in Settings, OthersQuiet(s), focus # s /\ UpToDate(s)' => LabelTrue(s)'
          PROVE  LabelsHonest'
      BY <2>1, <2>4, <2>5 DEF OthersQuiet
    <2>6. CASE Quiet
      BY <2>1, <2>4, <2>6 DEF Quiet
    <2> QED BY <2>2, <2>3, <2>4, <2>5, <2>6, StepsOfNext
  <1> QED BY <1>1, <1>2, ShortcutsTypeCorrect, PTL DEF ShortcutsSpec

-----------------------------------------------------------------------------
(* Conflicts.                                                              *)

(* Every text that is stored is one that a recorder writes.                *)
Stores(f) == f \in [Settings -> Recordable \cup {Unset}]
TextsInv == Stores(file) /\ Stores(lines)

LEMMA InForceRecordable ==
    ASSUME NEW f, Stores(f), NEW s \in Settings
    PROVE  InForce(f, s) \in Recordable
  BY FallbackAssumption DEF Stores, InForce, Stored

(* Of two recorders at rest with the same text, one tells of the conflict. *)
Shows(s) == AtRest(s) /\ UpToDate(s)
Equals(s, t) ==
    /\ NormalizeShortcutDisplay(InForce(file, s)) = NormalizeShortcutDisplay(InForce(file, t))
    /\ NormalizeShortcutDisplay(InForce(file, s)) # <<>>
EqualTold ==
    \A s, t \in Settings :
        s # t /\ Shows(s) /\ Shows(t) /\ Equals(s, t)
            => tip[s] = "conflict" \/ tip[t] = "conflict"

LEMMA EmptyRecordable == <<>> \in Recordable
  BY DEF Recordable
LEMMA ModifierRecordable ==
    ASSUME NEW m \in Modifiers
    PROVE  <<m>> \in Recordable
  BY DEF Recordable
LEMMA KeyRecordable ==
    ASSUME NEW k \in Key, ~IsModifier(k), NEW keys
    PROVE  RecordedShortcutFromKey(k, keys) \in Recordable
  <1>1. CASE k.name \notin Known(ShortcutDisplayForKey)
    BY <1>1, EmptyRecordable DEF RecordedShortcutFromKey
  <1>2. CASE k.name \in Known(ShortcutDisplayForKey)
    <2> DEFINE held == NamesOf(keys) \cap Modifiers
               word == Image(ShortcutDisplayForKey, k.name)
    <2>1. word \in Results(ShortcutDisplayForKey)
      BY <1>2, ImageInResults
    <2>2. RecordedShortcutFromKey(k, keys) = Spelled(held, word)
      BY <1>2 DEF RecordedShortcutFromKey
    <2>3. held \in SUBSET Modifiers
      OBVIOUS
    <2> HIDE DEF held, word
    <2> QED BY <2>1, <2>2, <2>3 DEF Recordable
  <1> QED BY <1>1, <1>2

LEMMA WriteRecordable ==
    ASSUME TextsInv, NEW s \in Settings, NEW text \in Recordable, WriteStringSetting(s, text)
    PROVE  TextsInv'
  <1>1. CASE UNCHANGED <<file, lines>>
    BY <1>1 DEF TextsInv
  <1>2. CASE /\ lines' \in {lines, [lines EXCEPT ![s] = text]}
             /\ file' \in {file, lines'}
    <2>1. Stores(lines')
      BY <1>2 DEF TextsInv, Stores
    <2> QED BY <1>2, <2>1 DEF TextsInv
  <1> QED BY <1>1, <1>2 DEF WriteStringSetting, StoreWrites, storeVars

LEMMA TextsKept ==
    ASSUME ShortcutsTypeOK, TextsInv, [ShortcutsNext]_shortcutsVars
    PROVE  TextsInv'
  <1>1. CASE UNCHANGED <<file, lines>>
    BY <1>1 DEF TextsInv
  <1>2. ASSUME NEW to, MoveFocus(to)
        PROVE  UNCHANGED <<file, lines>>
    BY <1>2 DEF MoveFocus
  <1>3. ASSUME NEW s \in Settings, Clear(s) \/ Reset(s)
        PROVE  TextsInv'
    BY <1>3, EmptyRecordable, FallbackAssumption, WriteRecordable DEF ButtonWrites, Clear, Reset
  <1>4. ASSUME NEW s \in Settings, NEW k \in Keys, RecorderKeyDown(s, k)
        PROVE  TextsInv'
    <2> DEFINE text == RecordedShortcutFromKey(k, Held(k))
    <2>1. ~IsModifier(k) => text \in Recordable
      BY KeyRecordable, ShortcutAssumption
    <2> HIDE DEF text
    <2>2. Unwritten \/ (~IsModifier(k) /\ WriteStringSetting(s, text))
      BY <1>4 DEF RecorderKeyDown, text
    <2> QED BY <1>1, <2>1, <2>2, WriteRecordable DEF Unwritten, storeVars
  <1>5. ASSUME NEW s \in Settings, NEW k \in Keys, RecorderKeyUp(s, k)
        PROVE  TextsInv'
    <2>1. <<k.name>> \in Recordable
      BY <1>5, ModifierRecordable DEF RecorderKeyUp, ShortcutsTypeOK, IsModifier
    <2>2. Unwritten \/ WriteStringSetting(s, <<k.name>>)
      BY <1>5 DEF RecorderKeyUp
    <2> QED BY <1>1, <2>1, <2>2, WriteRecordable DEF Unwritten, storeVars
  <1>6. ASSUME NEW k \in Keys, OnKeyDown(k) \/ OnKeyUp(k) \/ Elsewhere(k)
        PROVE  UNCHANGED <<file, lines>>
    BY <1>6 DEF OnKeyDown, OnKeyUp, Elsewhere, Unwritten, storeVars
  <1>7. CASE WriteOtherSetting
    BY <1>7 DEF WriteOtherSetting, TextsInv
  <1>8. CASE OtherWrites
    <2>1. Foreign \cup {Unset} \subseteq Recordable \cup {Unset}
      BY FallbackAssumption
    <2>2. Stores(file')
      BY <1>8, <2>1 DEF OtherWrites, TextsInv, Stores
    <2> QED BY <1>8, <2>2 DEF OtherWrites, TextsInv
  <1>9. CASE UNCHANGED shortcutsVars
    BY <1>1, <1>9 DEF shortcutsVars, storeVars
  <1> QED BY <1>1, <1>2, <1>3, <1>4, <1>5, <1>6, <1>7, <1>8, <1>9 DEF ShortcutsNext

(* A tooltip computed of what the application reads tells of a conflict    *)
(* with another setting, when it reads that one right.                     *)
LEMMA TooltipTells ==
    ASSUME NEW f, NEW g, NEW s \in Settings, NEW t \in Settings \ {s}, f[t] = g[t],
           NormalizeShortcutDisplay(InForce(g, t)) = NormalizeShortcutDisplay(InForce(g, s)),
           NormalizeShortcutDisplay(InForce(g, s)) # <<>>
    PROVE  ShortcutConflictTooltip(f, s, InForce(g, s)) = "conflict"
  <1>1. InForce(f, t) = InForce(g, t)
    BY DEF InForce, Stored
  <1> QED BY <1>1 DEF ShortcutConflictTooltip

Fresh(s) == tip'[s] = ShortcutConflictTooltip(Seen', s, InForce(file', s))
Still(s) == /\ file'[s] = file[s] /\ tip'[s] = tip[s]
            /\ Shows(s)' => Shows(s)

(* The pairs stay told when each recorder is left alone, does not show     *)
(* what is in force, or has just been compared with the others.            *)
LEMMA ToldKept ==
    ASSUME SavedInv', EqualTold, \A s \in Settings : Shows(s)' => Fresh(s) \/ Still(s)
    PROVE  EqualTold'
  <1> SUFFICES ASSUME NEW s \in Settings, NEW t \in Settings,
                      s # t, Shows(s)', Shows(t)', Equals(s, t)'
               PROVE  tip'[s] = "conflict" \/ tip'[t] = "conflict"
    BY DEF EqualTold
  <1>0. ASSUME NEW u \in Settings, Shows(u)'
        PROVE  Seen'[u] = file'[u]
    BY <1>0 DEF Shows, UpToDate, SavedInv, Seen
  <1>1. CASE Fresh(s)
    <2>1. Seen'[t] = file'[t]
      BY <1>0
    <2> QED BY <1>1, <2>1, TooltipTells DEF Fresh, Equals
  <1>2. CASE Fresh(t)
    <2>1. Seen'[s] = file'[s]
      BY <1>0
    <2> QED BY <1>2, <2>1, TooltipTells DEF Fresh, Equals
  <1>3. CASE Still(s) /\ Still(t)
    <2>1. InForce(file', s) = InForce(file, s) /\ InForce(file', t) = InForce(file, t)
      BY <1>3, InForceKept DEF Still
    <2>2. Equals(s, t)
      BY <2>1 DEF Equals
    <2> QED BY <1>3, <2>2 DEF Still, EqualTold
  <1> QED BY <1>1, <1>2, <1>3

LEMMA OthersStill ==
    ASSUME focus' = focus, NEW t \in Settings, Untouched(t), Shows(t)'
    PROVE  Still(t)
  BY InForceKept DEF Untouched, Still, AtRest, Shows

LEMMA EqualToldKept ==
    ASSUME ShortcutsTypeOK, SavedInv, EqualTold, [ShortcutsNext]_shortcutsVars
    PROVE  EqualTold'
  <1>0. SavedInv'
    BY SavedKept
  <1>1. ASSUME NEW to \in Settings \cup {"application", "elsewhere"}, MoveFocus(to)
        PROVE  EqualTold'
    <2> SUFFICES ASSUME NEW s \in Settings, Shows(s)'
                 PROVE  Fresh(s) \/ Still(s)
      BY <1>0, ToldKept
    <2>1. file' = file /\ lines' = lines /\ focus' = to /\ focus # to
      BY <1>1 DEF MoveFocus
    <2>2. CASE s = focus
      <3>1. tip'[s] = ShortcutConflictTooltip(Seen, s, InForce(Seen, s))
        BY <1>1, <2>1, <2>2 DEF MoveFocus
      <3>2. lines[s] = file[s]
        BY <1>0, <2>1 DEF Shows, UpToDate, SavedInv
      <3>3. InForce(Seen, s) = InForce(file, s) /\ Seen' = Seen
        BY <2>1, <3>2 DEF Seen, InForce, Stored
      <3> QED BY <2>1, <3>1, <3>3 DEF Fresh
    <2>3. s # to
      BY <2>1 DEF Shows, AtRest
    <2>4. CASE s # focus /\ s # to
      <3>1. tip'[s] = tip[s] /\ label'[s] = label[s] /\ (UpToDate(s)' => UpToDate(s))
        BY <1>1, <2>4 DEF MoveFocus, UpToDate
      <3> QED BY <2>1, <2>4, <3>1 DEF Still, AtRest, Shows
    <2> QED BY <2>2, <2>3, <2>4
  <1>2. ASSUME NEW s \in Settings, NEW text, ButtonWrites(s, text)
        PROVE  EqualTold'
    <2>1. OthersQuiet(s)
      BY <1>2, WriteIsOwn DEF ButtonWrites
    <2>2. /\ label'[s] = NormalizeShortcutDisplay(text)
          /\ tip'[s] = ShortcutConflictTooltip(Seen', s, text)
      BY <1>2 DEF ButtonWrites, ApplyText, ShowsAfter, ShortcutsTypeOK
    <2>3. Shows(s)' => Fresh(s)
      BY <2>2 DEF Shows, AtRest, Fresh, ShortcutConflictTooltip
    <2> QED BY <1>0, <2>1, <2>3, OthersStill, ToldKept DEF OthersQuiet
  <1>3. ASSUME NEW s \in Settings, focus = s, OthersQuiet(s)
        PROVE  EqualTold'
    <2>1. ~Shows(s)'
      BY <1>3 DEF OthersQuiet, Shows, AtRest
    <2> QED BY <1>0, <1>3, <2>1, OthersStill, ToldKept DEF OthersQuiet
  <1>4. CASE Quiet
    BY <1>0, <1>4, OthersStill, ToldKept DEF Quiet
  <1> QED BY <1>1, <1>2, <1>3, <1>4, StepsOfNext

LEMMA NormalIsEmpty ==
    ASSUME NEW text \in ShortcutText, NormalizeShortcutDisplay(text) = <<>>
    PROVE  text = <<>>
  <1>1. DOMAIN NormalizeShortcutDisplay(text) = DOMAIN text
    BY DEF NormalizeShortcutDisplay
  <1>2. DOMAIN text = 1..Len(text) /\ Len(text) \in Nat /\ DOMAIN <<>> = {}
    BY DEF ShortcutText
  <1>3. Len(text) = 0
    BY <1>1, <1>2
  <1> QED BY <1>3 DEF ShortcutText

(* Two shortcuts that one key press would match are not a surprise         *)
(* (hotkey_helpers.cpp:108-127, shortcut_model.cpp:141-185): of two        *)
(* recorders that show what is in force, and whose changes were saved and  *)
(* are the last, one has told of the conflict.                             *)
THEOREM ConflictToldCorrect == ShortcutsSpec => []ConflictTold
  <1>1. ShortcutsInit => TextsInv /\ SavedInv /\ EqualTold
    <2> SUFFICES ASSUME ShortcutsInit PROVE TextsInv /\ SavedInv /\ EqualTold
      OBVIOUS
    <2>1. \A s \in Settings : InForce(file, s) = Fallback[s]
      BY DEF ShortcutsInit, InForce, Stored
    <2>2. TextsInv
      <3>1. Stores(file)
        <4>1. CASE file = Fallback
          BY <4>1, ShortcutAssumption, FallbackAssumption DEF Stores
        <4>2. CASE file = [s \in Settings |-> Unset]
          BY <4>2 DEF Stores
        <4> QED BY <4>1, <4>2 DEF ShortcutsInit
      <3> QED BY <3>1 DEF ShortcutsInit, TextsInv
    <2>3. \A s \in Settings : tip[s] = ShortcutConflictTooltip(file, s, InForce(file, s))
      BY <2>1 DEF ShortcutsInit
    <2>4. EqualTold
      BY <2>3, TooltipTells DEF EqualTold, Equals
    <2>5. SavedInv
      BY DEF ShortcutsInit, SavedInv
    <2> QED BY <2>2, <2>4, <2>5
  <1>2. ShortcutsTypeOK /\ TextsInv /\ SavedInv /\ EqualTold /\ [ShortcutsNext]_shortcutsVars
            => TextsInv' /\ SavedInv' /\ EqualTold'
    BY TextsKept, SavedKept, EqualToldKept
  <1>3. ShortcutsTypeOK /\ TextsInv /\ EqualTold => ConflictTold
    <2> SUFFICES ASSUME ShortcutsTypeOK, TextsInv, EqualTold, NEW s \in Settings, NEW t \in Settings,
                        s # t, Shows(s), Shows(t), SameChord(s, t)
                 PROVE  tip[s] = "conflict" \/ tip[t] = "conflict"
      BY DEF ConflictTold, Shows
    <2>0. InForce(file, s) \in Recordable /\ InForce(file, t) \in Recordable
      BY InForceRecordable DEF TextsInv
    <2>1. InForce(file, s) = InForce(file, t) /\ InForce(file, s) # <<>>
      BY <2>0, SameChordSameText DEF SameChord
    <2>2. InForce(file, s) \in ShortcutText
      BY InForceText DEF ShortcutsTypeOK
    <2>3. Equals(s, t)
      BY <2>1, <2>2, NormalIsEmpty DEF Equals
    <2> QED BY <2>3 DEF EqualTold
  <1> QED BY <1>1, <1>2, <1>3, ShortcutsTypeCorrect, PTL DEF ShortcutsSpec

-----------------------------------------------------------------------------
(* What is recorded is recognised.                                         *)

LEMMA NamesAreModifiers ==
    ASSUME NEW keys \in SUBSET {k \in Keys : IsModifier(k)}
    PROVE  NamesOf(keys) \in SUBSET Modifiers
  BY DEF NamesOf, IsModifier

LEMMA KeyRecognised ==
    ASSUME NEW k \in Keys, ~IsModifier(k), NEW held \in SUBSET {m \in Keys : IsModifier(m)},
           RecordedShortcutFromKey(k, held) # <<>>
    PROVE  RecognisedOnly(RecordedShortcutFromKey(k, held), k, held)
  <1> DEFINE word == Image(ShortcutDisplayForKey, k.name)
             text == Spelled(NamesOf(held), word)
  <1>1. k.name \in Known(ShortcutDisplayForKey)
    BY DEF RecordedShortcutFromKey
  <1>2. NamesOf(held) \in SUBSET Modifiers
    BY NamesAreModifiers
  <1>3. RecordedShortcutFromKey(k, held) = text
    <2>1. NamesOf(held) \cap Modifiers = NamesOf(held)
      BY <1>2
    <2> QED BY <1>1, <2>1 DEF RecordedShortcutFromKey
  <1>4. word \in Results(ShortcutDisplayForKey)
    BY <1>1, ImageInResults
  <1>5. Image(ShortcutKeyFromToken, word) = k.name
    <2>1. PICK e \in ShortcutDisplayForKey : e[1] = k.name
      BY <1>1 DEF Known
    <2>2. word = e[2]
      BY <2>1, ImageOfEntry, DisplayFunctional
    <2>3. <<e[2], e[1]>> \in ShortcutKeyFromToken
      BY ShownIsRead
    <2> HIDE DEF word
    <2> QED BY <2>1, <2>2, <2>3, ImageOfEntry, KeysFunctional
  <1>6. k = [name |-> k.name, side |-> "none"]
    BY ShortcutAssumption DEF IsModifier, Key
  <1> HIDE DEF word
  <1>7. ParseShortcutChord(text) = ChordOf(NamesOf(held), k.name, "none")
    BY <1>2, <1>4, <1>5, ParsesBack
  <1> HIDE DEF text
  <1>8. /\ ParseShortcutChord(text).valid
        /\ ParseShortcutChord(text).key = k /\ ParseShortcutChord(text).mods = NamesOf(held)
    BY <1>6, <1>7 DEF ChordOf
  <1>9. RecognisedOnly(text, k, held)
    BY <1>8 DEF RecognisedOnly, ShortcutMatches, ShortcutKeyEquals
  <1> QED BY <1>3, <1>9

LEMMA ModifierRecognised ==
    ASSUME NEW k \in Keys, IsModifier(k)
    PROVE  RecognisedOnly(<<k.name>>, k, {k})
  <1> DEFINE text == <<k.name>>
  <1>1. ParseShortcutChord(text) = ChordOf({k.name}, k.name, "any")
    BY ModifierParsed DEF IsModifier
  <1>2. NamesOf({k}) = {k.name}
    BY DEF NamesOf
  <1> HIDE DEF text
  <1>3. /\ ParseShortcutChord(text).valid
        /\ ParseShortcutChord(text).key.name = k.name /\ ParseShortcutChord(text).key.side = "any"
        /\ ParseShortcutChord(text).mods = NamesOf({k})
    BY <1>1, <1>2 DEF ChordOf
  <1>4. RecognisedOnly(text, k, {k})
    BY <1>3 DEF RecognisedOnly, ShortcutMatches, ShortcutKeyEquals
  <1> QED BY <1>4 DEF text

(* The text that a key press adds to the store of the settings is          *)
(* recognised from that key with the modifiers that were held, and from no *)
(* others (hotkey_helpers.cpp:129-284 against shortcut_model.cpp:36-185):  *)
(* for every keyboard and all the keys of the two tables.                  *)
THEOREM RecordedIsRecognisedCorrect == ShortcutsSpec => RecordedIsRecognised
  <1> DEFINE Added(s) == lines'[s] \notin {lines[s], <<>>, Fallback[s]} /\ ~OtherWrites
             Recognised(s) ==
                \E k \in Keys :
                    \/ RecognisedOnly(lines'[s], k, down)
                    \/ k \in down \ down' /\ RecognisedOnly(lines'[s], k, {k})
  <1>1. ShortcutsTypeOK /\ [ShortcutsNext]_shortcutsVars => \A s \in Settings : Added(s) => Recognised(s)
    <2> SUFFICES ASSUME ShortcutsTypeOK, [ShortcutsNext]_shortcutsVars, NEW s \in Settings, Added(s)
                 PROVE  Recognised(s)
      OBVIOUS
    <2>1. lines' # lines /\ ~OtherWrites
      OBVIOUS
    <2>2. ASSUME NEW t \in Settings, NEW text, WriteStringSetting(t, text)
          PROVE  t = s /\ lines'[s] = text
      BY <2>2 DEF WriteStringSetting, StoreWrites, storeVars, ShortcutsTypeOK
    <2>3. ASSUME NEW to, MoveFocus(to)
          PROVE  FALSE
      BY <2>1, <2>3 DEF MoveFocus
    <2>4. ASSUME NEW t \in Settings, Clear(t) \/ Reset(t)
          PROVE  FALSE
      BY <2>2, <2>4 DEF Clear, Reset, ButtonWrites
    <2>5. ASSUME NEW t \in Settings, NEW k \in Keys, RecorderKeyDown(t, k)
          PROVE  Recognised(s)
      <3> DEFINE text == RecordedShortcutFromKey(k, Held(k))
      <3>1. ~IsModifier(k) /\ text # <<>> /\ WriteStringSetting(t, text)
        BY <2>1, <2>5 DEF RecorderKeyDown, Unwritten, storeVars
      <3>2. Held(k) = down
        BY <3>1 DEF Held
      <3>3. RecognisedOnly(text, k, down)
        BY <3>1, <3>2, KeyRecognised DEF ShortcutsTypeOK
      <3> HIDE DEF text
      <3> QED BY <2>2, <3>1, <3>3
    <2>6. ASSUME NEW t \in Settings, NEW k \in Keys, RecorderKeyUp(t, k)
          PROVE  Recognised(s)
      <3>1. k \in down \ down' /\ IsModifier(k) /\ WriteStringSetting(t, <<k.name>>)
        BY <2>1, <2>6 DEF RecorderKeyUp, Unwritten, storeVars, ShortcutsTypeOK
      <3>2. RecognisedOnly(<<k.name>>, k, {k})
        BY <3>1, ModifierRecognised
      <3> QED BY <2>2, <3>1, <3>2
    <2>7. ASSUME NEW k \in Keys, OnKeyDown(k) \/ OnKeyUp(k) \/ Elsewhere(k)
          PROVE  FALSE
      BY <2>1, <2>7 DEF OnKeyDown, OnKeyUp, Elsewhere, Unwritten, storeVars
    <2>8. ~WriteOtherSetting /\ ~UNCHANGED shortcutsVars
      BY <2>1 DEF WriteOtherSetting, shortcutsVars, storeVars
    <2> QED BY <2>1, <2>3, <2>4, <2>5, <2>6, <2>7, <2>8 DEF ShortcutsNext
  <1>2. ShortcutsTypeOK /\ [ShortcutsNext]_shortcutsVars => [\A s \in Settings : Added(s) => Recognised(s)]_lines
    BY <1>1
  <1> QED BY <1>2, ShortcutsTypeCorrect, PTL DEF ShortcutsSpec, RecordedIsRecognised
=============================================================================
