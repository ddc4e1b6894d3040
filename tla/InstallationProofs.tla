-------------------------- MODULE InstallationProofs --------------------------
(***************************************************************************)
(* Proofs about Installation, for every set of applications, versions and  *)
(* operations pending: its types, that the text service is registered just *)
(* when the product is installed, that a removal leaves nothing of it      *)
(* behind but what was held open, that the operations other programs left  *)
(* pending stay as they are, and that no operation pending deletes a file  *)
(* of the product's at the next start of Windows once it is installed.     *)
(***************************************************************************)
EXTENDS Installation, FiniteSetTheorems, WellFoundedInduction, TLAPS

-----------------------------------------------------------------------------
(* The scripts.                                                            *)

StepsOf(s) == {s[i] : i \in 1..Len(s)}

\* Every a in s has a b after it; b is in s once; no a in s is before b.
Later(s, a, b) == \A i \in 1..Len(s) : s[i] = a => \E j \in 1..Len(s) : i < j /\ s[j] = b
Once(s, b) == \A i, j \in 1..Len(s) : s[i] = b /\ s[j] = b => i = j
NotBefore(s, a, b) == \A i, j \in 1..Len(s) : s[i] = a /\ s[j] = b => j < i

LEMMA Concatenation ==
    ASSUME NEW S, NEW s \in Seq(S), NEW t \in Seq(S)
    PROVE  /\ s \o t \in Seq(S) /\ Len(s \o t) = Len(s) + Len(t)
           /\ \A i \in 1..Len(s) : (s \o t)[i] = s[i]
           /\ \A i \in 1..Len(t) : (s \o t)[Len(s) + i] = t[i]
           /\ \A i \in 1..Len(s \o t) :
                \/ i \in 1..Len(s) /\ (s \o t)[i] = s[i]
                \/ i - Len(s) \in 1..Len(t) /\ (s \o t)[i] = t[i - Len(s)]
  OBVIOUS

LEMMA StepsOfBoth ==
    ASSUME NEW S, NEW s \in Seq(S), NEW t \in Seq(S)
    PROVE  StepsOf(s \o t) = StepsOf(s) \cup StepsOf(t)
  <1> DEFINE u == s \o t
  <1>1. /\ Len(u) = Len(s) + Len(t) /\ Len(s) \in Nat /\ Len(t) \in Nat
        /\ \A i \in 1..Len(s) : u[i] = s[i]
        /\ \A i \in 1..Len(t) : u[Len(s) + i] = t[i]
        /\ \A i \in 1..Len(u) :
             \/ i \in 1..Len(s) /\ u[i] = s[i]
             \/ i - Len(s) \in 1..Len(t) /\ u[i] = t[i - Len(s)]
    BY Concatenation
  <1> HIDE DEF u
  <1>2. ASSUME NEW x \in StepsOf(u)
        PROVE  x \in StepsOf(s) \cup StepsOf(t)
    BY <1>1 DEF StepsOf
  <1>3. ASSUME NEW x \in StepsOf(s)
        PROVE  x \in StepsOf(u)
    BY <1>1 DEF StepsOf
  <1>4. ASSUME NEW x \in StepsOf(t)
        PROVE  x \in StepsOf(u)
    <2>1. PICK i \in 1..Len(t) : x = t[i]
      BY DEF StepsOf
    <2>2. Len(s) + i \in 1..Len(u) /\ u[Len(s) + i] = x
      BY <1>1, <2>1
    <2> QED BY <2>2 DEF StepsOf
  <1>5. StepsOf(u) = StepsOf(s) \cup StepsOf(t)
    BY <1>2, <1>3, <1>4
  <1> QED BY <1>5 DEF u

\* What is true of the second part stays true when b is only there.
LEMMA SecondPart ==
    ASSUME NEW S, NEW s \in Seq(S), NEW t \in Seq(S), NEW a, NEW b,
           b \in StepsOf(t), b \notin StepsOf(s)
    PROVE  /\ Later(t, a, b) => Later(s \o t, a, b)
           /\ Once(t, b) => Once(s \o t, b)
  <1> DEFINE u == s \o t
  <1>1. /\ Len(u) = Len(s) + Len(t) /\ Len(s) \in Nat /\ Len(t) \in Nat
        /\ \A i \in 1..Len(s) : u[i] = s[i]
        /\ \A i \in 1..Len(t) : u[Len(s) + i] = t[i]
        /\ \A i \in 1..Len(u) :
             \/ i \in 1..Len(s) /\ u[i] = s[i]
             \/ i - Len(s) \in 1..Len(t) /\ u[i] = t[i - Len(s)]
    BY Concatenation
  <1> HIDE DEF u
  <1>2. PICK k \in 1..Len(t) : t[k] = b
    BY DEF StepsOf
  <1>3. \A i \in 1..Len(s) : s[i] # b
    BY DEF StepsOf
  <1>4. ASSUME Later(t, a, b), NEW i \in 1..Len(u), u[i] = a
        PROVE  \E j \in 1..Len(u) : i < j /\ u[j] = b
    <2>1. CASE i \in 1..Len(s)
      <3>1. Len(s) + k \in 1..Len(u) /\ u[Len(s) + k] = b /\ i < Len(s) + k
        BY <1>1, <1>2, <2>1
      <3> QED BY <3>1
    <2>2. CASE i - Len(s) \in 1..Len(t) /\ t[i - Len(s)] = a
      <3>1. PICK j \in 1..Len(t) : i - Len(s) < j /\ t[j] = b
        BY <1>4, <2>2 DEF Later
      <3>2. Len(s) + j \in 1..Len(u) /\ u[Len(s) + j] = b /\ i < Len(s) + j
        BY <1>1, <3>1
      <3> QED BY <3>2
    <2> QED BY <1>1, <1>4, <2>1, <2>2
  <1>5. ASSUME Once(t, b), NEW i \in 1..Len(u), NEW j \in 1..Len(u), u[i] = b, u[j] = b
        PROVE  i = j
    <2>1. i - Len(s) \in 1..Len(t) /\ t[i - Len(s)] = b
          /\ j - Len(s) \in 1..Len(t) /\ t[j - Len(s)] = b
      BY <1>1, <1>3, <1>5
    <2>2. i - Len(s) = j - Len(s)
      BY <1>5, <2>1 DEF Once
    <2> QED BY <1>1, <2>2
  <1>6. (Later(t, a, b) => Later(u, a, b)) /\ (Once(t, b) => Once(u, b))
    BY <1>4, <1>5 DEF Later, Once
  <1> QED BY <1>6 DEF u

\* What is true of the first part stays true when b is only there.
LEMMA FirstPart ==
    ASSUME NEW S, NEW s \in Seq(S), NEW t \in Seq(S), NEW a, NEW b, b \notin StepsOf(t)
    PROVE  /\ NotBefore(s, a, b) => NotBefore(s \o t, a, b)
           /\ Once(s, b) => Once(s \o t, b)
  <1> DEFINE u == s \o t
  <1>1. /\ Len(u) = Len(s) + Len(t) /\ Len(s) \in Nat /\ Len(t) \in Nat
        /\ \A i \in 1..Len(u) :
             \/ i \in 1..Len(s) /\ u[i] = s[i]
             \/ i - Len(s) \in 1..Len(t) /\ u[i] = t[i - Len(s)]
    BY Concatenation
  <1> HIDE DEF u
  <1>2. \A i \in 1..Len(t) : t[i] # b
    BY DEF StepsOf
  <1>3. ASSUME NEW j \in 1..Len(u), u[j] = b
        PROVE  j \in 1..Len(s) /\ s[j] = b
    BY <1>1, <1>2, <1>3
  <1>4. ASSUME NotBefore(s, a, b), NEW i \in 1..Len(u), NEW j \in 1..Len(u), u[i] = a, u[j] = b
        PROVE  j < i
    <2>1. j \in 1..Len(s) /\ s[j] = b
      BY <1>3, <1>4
    <2> QED BY <1>1, <1>4, <2>1 DEF NotBefore
  <1>5. ASSUME Once(s, b), NEW i \in 1..Len(u), NEW j \in 1..Len(u), u[i] = b, u[j] = b
        PROVE  i = j
    BY <1>3, <1>5 DEF Once
  <1>6. (NotBefore(s, a, b) => NotBefore(u, a, b)) /\ (Once(s, b) => Once(u, b))
    BY <1>4, <1>5 DEF NotBefore, Once
  <1> QED BY <1>6 DEF u

\* The first step is done.
LEMMA TailKeeps ==
    ASSUME NEW S, NEW s \in Seq(S), s # <<>>, NEW a, NEW b
    PROVE  /\ Tail(s) \in Seq(S) /\ Head(s) \in StepsOf(s)
           /\ StepsOf(Tail(s)) \subseteq StepsOf(s)
           /\ b \in StepsOf(s) => b \in StepsOf(Tail(s)) \/ Head(s) = b
           /\ Later(s, a, b) => Later(Tail(s), a, b)
           /\ Once(s, b) => Once(Tail(s), b) /\ (Head(s) = b => b \notin StepsOf(Tail(s)))
           /\ NotBefore(s, a, b) =>
                NotBefore(Tail(s), a, b) /\ (Head(s) = a => b \notin StepsOf(s))
           /\ Later(s, Head(s), b) => b \in StepsOf(Tail(s))
  <1> DEFINE t == Tail(s)
  <1>1. /\ t \in Seq(S) /\ Len(s) \in Nat /\ Len(s) >= 1 /\ Len(t) = Len(s) - 1
        /\ Head(s) = s[1] /\ \A i \in 1..Len(t) : t[i] = s[i + 1]
    OBVIOUS
  <1> HIDE DEF t
  <1>2. \A i \in 1..Len(t) : i + 1 \in 1..Len(s)
    BY <1>1
  <1>3. \A i \in 1..Len(s) : i # 1 => i - 1 \in 1..Len(t) /\ t[i - 1] = s[i]
    BY <1>1
  <1>4. Head(s) \in StepsOf(s) /\ StepsOf(t) \subseteq StepsOf(s)
    BY <1>1, <1>2 DEF StepsOf
  <1>5. b \in StepsOf(s) => b \in StepsOf(t) \/ Head(s) = b
    BY <1>1, <1>3 DEF StepsOf
  <1>6. ASSUME Later(s, a, b), NEW i \in 1..Len(t), t[i] = a
        PROVE  \E j \in 1..Len(t) : i < j /\ t[j] = b
    <2>1. PICK j \in 1..Len(s) : i + 1 < j /\ s[j] = b
      BY <1>1, <1>2, <1>6 DEF Later
    <2>2. j - 1 \in 1..Len(t) /\ t[j - 1] = b /\ i < j - 1
      BY <1>1, <1>3, <2>1
    <2> QED BY <2>2
  <1>7. ASSUME Once(s, b), NEW i \in 1..Len(t), NEW j \in 1..Len(t), t[i] = b, t[j] = b
        PROVE  i = j
    <2>1. i + 1 = j + 1
      BY <1>1, <1>2, <1>7 DEF Once
    <2> QED BY <2>1
  <1>8. ASSUME Once(s, b), Head(s) = b, NEW i \in 1..Len(t), t[i] = b
        PROVE  FALSE
    <2>1. s[1] = b /\ s[i + 1] = b /\ 1 \in 1..Len(s) /\ i + 1 \in 1..Len(s) /\ 1 # i + 1
      BY <1>1, <1>2, <1>8
    <2> QED BY <1>8, <2>1 DEF Once
  <1>9. ASSUME NotBefore(s, a, b), NEW i \in 1..Len(t), NEW j \in 1..Len(t), t[i] = a, t[j] = b
        PROVE  j < i
    <2>1. j + 1 < i + 1
      BY <1>1, <1>2, <1>9 DEF NotBefore
    <2> QED BY <2>1
  <1>10. ASSUME NotBefore(s, a, b), Head(s) = a, NEW j \in 1..Len(s), s[j] = b
         PROVE  FALSE
    <2>1. j < 1
      BY <1>1, <1>10 DEF NotBefore
    <2> QED BY <2>1
  <1>11. ASSUME Later(s, Head(s), b)
         PROVE  b \in StepsOf(t)
    <2>1. PICK j \in 1..Len(s) : 1 < j /\ s[j] = b
      BY <1>1, <1>11 DEF Later
    <2>2. j - 1 \in 1..Len(t) /\ t[j - 1] = b
      BY <1>3, <2>1
    <2> QED BY <2>2 DEF StepsOf
  <1>12. Later(s, a, b) => Later(t, a, b)
    BY <1>6 DEF Later
  <1>13. Once(s, b) => Once(t, b) /\ (Head(s) = b => b \notin StepsOf(t))
    BY <1>7, <1>8 DEF Once, StepsOf
  <1>14. NotBefore(s, a, b) => NotBefore(t, a, b) /\ (Head(s) = a => b \notin StepsOf(s))
    BY <1>9, <1>10 DEF NotBefore, StepsOf
  <1> QED BY <1>1, <1>4, <1>5, <1>11, <1>12, <1>13, <1>14 DEF t

(* The sequences the scripts are made of.                                  *)
Registering == <<"runtime", "register", "activate", "warmup">>
Leaving == <<"settings", "shutdown", "unregister">>
Pending == <<"pending", "fonts">>
Single(step) == <<step>>

LEMMA SingleStep ==
    ASSUME NEW step \in Steps
    PROVE  Single(step) \in Seq(Steps) /\ StepsOf(Single(step)) = {step}
  BY DEF Single, StepsOf

LEMMA Parts ==
    /\ CloseLegacyInputHosts \in Seq(Steps) /\ StepsOf(CloseLegacyInputHosts) = {"snapshot", "close"}
    /\ Pending \in Seq(Steps) /\ StepsOf(Pending) = {"pending", "fonts"}
    /\ {"kill", "files", "removal", "shutdown"} \subseteq Steps
    /\ CleanupInstall \in Seq(Steps)
    /\ StepsOf(CleanupInstall)
         = {"pending", "settings", "visitors", "fonts", "task", "keys", "data"}
    /\ Registering \in Seq(Steps)
    /\ StepsOf(Registering) = {"runtime", "register", "activate", "warmup"}
    /\ Leaving \in Seq(Steps) /\ StepsOf(Leaving) = {"settings", "shutdown", "unregister"}
  <1> USE DEF StepsOf, Steps
  <1>1. CloseLegacyInputHosts \in Seq(Steps) /\ StepsOf(CloseLegacyInputHosts) = {"snapshot", "close"}
    BY DEF CloseLegacyInputHosts
  <1>2. Pending \in Seq(Steps) /\ StepsOf(Pending) = {"pending", "fonts"}
    BY DEF Pending
  <1>3. {"kill", "files", "removal", "shutdown"} \subseteq Steps
    OBVIOUS
  <1>7. CleanupInstall \in Seq(Steps)
    BY DEF CleanupInstall
  <1>8. StepsOf(CleanupInstall)
          = {"pending", "settings", "visitors", "fonts", "task", "keys", "data"}
    BY DEF CleanupInstall
  <1>9. Registering \in Seq(Steps)
        /\ StepsOf(Registering) = {"runtime", "register", "activate", "warmup"}
    BY DEF Registering
  <1>10. Leaving \in Seq(Steps) /\ StepsOf(Leaving) = {"settings", "shutdown", "unregister"}
    BY DEF Leaving
  <1> QED BY <1>1, <1>2, <1>3, <1>7, <1>8, <1>9, <1>10

LEMMA Joined ==
    ASSUME NEW s \in Seq(Steps), NEW t \in Seq(Steps)
    PROVE  s \o t \in Seq(Steps) /\ StepsOf(s \o t) = StepsOf(s) \cup StepsOf(t)
  BY Concatenation, StepsOfBoth

(* What every script keeps to: the server is registered once, after the    *)
(* old files are gone and all that can fail before is done; a removal      *)
(* unregisters it once, before the keys and the files go.                  *)
GoodTodo(kind, s) ==
    /\ s \in Seq(Steps)
    /\ kind \in {"install", "upgrade"} =>
         /\ StepsOf(s) \cap {"unregister", "keys"} = {}
         /\ Once(s, "register") /\ Later(s, "removal", "register")
         /\ Later(s, "runtime", "register")
    /\ kind = "install" => "removal" \notin StepsOf(s)
    /\ kind = "remove" =>
         /\ StepsOf(s) \cap {"register", "runtime", "files"} = {}
         /\ Once(s, "unregister") /\ NotBefore(s, "keys", "unregister")
         /\ NotBefore(s, "removal", "unregister")

LEMMA PreparingSteps ==
    /\ PrepareInstall \in Seq(Steps)
    /\ StepsOf(PrepareInstall) = {"snapshot", "close", "pending", "fonts"}
    /\ RestartTextServices \in Seq(Steps)
    /\ StepsOf(RestartTextServices) = {"kill", "snapshot", "close"}
  <1>1. PrepareInstall = CloseLegacyInputHosts \o Pending
    BY DEF PrepareInstall, Pending
  <1>2. PrepareInstall \in Seq(Steps)
        /\ StepsOf(PrepareInstall) = {"snapshot", "close"} \cup {"pending", "fonts"}
    BY <1>1, Parts, Joined
  <1>3. RestartTextServices = Single("kill") \o CloseLegacyInputHosts
    BY DEF RestartTextServices, Single
  <1>4. Single("kill") \in Seq(Steps) /\ StepsOf(Single("kill")) = {"kill"}
    BY Parts, SingleStep
  <1>5. RestartTextServices \in Seq(Steps) /\ StepsOf(RestartTextServices)
          = StepsOf(Single("kill")) \cup StepsOf(CloseLegacyInputHosts)
    <2>1. CloseLegacyInputHosts \in Seq(Steps)
      BY Parts
    <2> QED BY <1>3, <1>4, <2>1, Joined
  <1>6. StepsOf(CloseLegacyInputHosts) = {"snapshot", "close"}
    BY Parts
  <1> QED BY <1>2, <1>4, <1>5, <1>6

LEMMA InstallingSteps ==
    /\ Installing \in Seq(Steps)
    /\ StepsOf(Installing) = {"files", "snapshot", "close", "pending", "fonts",
                              "runtime", "register", "activate", "warmup"}
    /\ GoodTodo("install", Installing)
  <1> DEFINE first == Single("files") \o PrepareInstall
  <1>0. Single("files") \in Seq(Steps) /\ StepsOf(Single("files")) = {"files"}
    BY Parts, SingleStep
  <1>1. first \in Seq(Steps)
        /\ StepsOf(first) = {"files"} \cup {"snapshot", "close", "pending", "fonts"}
    BY <1>0, PreparingSteps, Joined
  <1>2. Installing = first \o Registering
    BY DEF Installing, Registering, Single
  <1>3. Once(Registering, "register") /\ Later(Registering, "removal", "register")
        /\ Later(Registering, "runtime", "register")
    BY DEF Registering, Once, Later
  <1> HIDE DEF first
  <1>4. Installing \in Seq(Steps)
    BY <1>1, <1>2, Parts, Joined
  <1>5. StepsOf(Installing) = StepsOf(first) \cup StepsOf(Registering)
    BY <1>1, <1>2, Parts, Joined
  <1>6. "register" \in StepsOf(Registering) /\ "register" \notin StepsOf(first)
    BY <1>1, Parts
  <1>7. Once(Installing, "register") /\ Later(Installing, "removal", "register")
        /\ Later(Installing, "runtime", "register")
    BY <1>1, <1>2, <1>3, <1>6, Parts, SecondPart
  <1>8. StepsOf(Installing) = {"files", "snapshot", "close", "pending", "fonts",
                               "runtime", "register", "activate", "warmup"}
    BY <1>1, <1>5, Parts
  <1> QED BY <1>4, <1>7, <1>8 DEF GoodTodo

LEMMA GoodScripts ==
    ASSUME NEW kind \in Kinds
    PROVE  GoodTodo(kind, Script(kind))
  <1>1. CASE kind = "install"
    BY <1>1, InstallingSteps DEF Script
  <1>2. CASE kind = "upgrade"
    <2> DEFINE preparing == Single("shutdown") \o PrepareInstall
               before == BeforeUpgrade \o Single("removal")
    <2>0. Single("shutdown") \in Seq(Steps) /\ StepsOf(Single("shutdown")) = {"shutdown"}
          /\ Single("removal") \in Seq(Steps) /\ StepsOf(Single("removal")) = {"removal"}
      BY Parts, SingleStep
    <2>1. preparing \in Seq(Steps)
          /\ StepsOf(preparing) = {"shutdown"} \cup {"snapshot", "close", "pending", "fonts"}
      BY <2>0, PreparingSteps, Joined
    <2>2. BeforeUpgrade = preparing \o RestartTextServices
      BY DEF BeforeUpgrade, Single
    <2> HIDE DEF preparing
    <2>3. BeforeUpgrade \in Seq(Steps)
          /\ StepsOf(BeforeUpgrade) = StepsOf(preparing) \cup {"kill", "snapshot", "close"}
      BY <2>1, <2>2, PreparingSteps, Joined
    <2>4. before \in Seq(Steps) /\ StepsOf(before) = StepsOf(BeforeUpgrade) \cup {"removal"}
      BY <2>0, <2>3, Joined
    <2>5. Script("upgrade") = before \o Installing
      BY DEF Script, Single
    <2> HIDE DEF before
    <2>6. Script("upgrade") \in Seq(Steps)
          /\ StepsOf(Script("upgrade")) = StepsOf(before) \cup StepsOf(Installing)
      BY <2>4, <2>5, InstallingSteps, Joined
    <2>7. "register" \in StepsOf(Installing) /\ "register" \notin StepsOf(before)
          /\ StepsOf(before) \cap {"unregister", "keys"} = {}
          /\ StepsOf(Installing) \cap {"unregister", "keys"} = {}
      BY <2>1, <2>3, <2>4, InstallingSteps
    <2>8. Once(Installing, "register") /\ Later(Installing, "removal", "register")
          /\ Later(Installing, "runtime", "register")
      BY InstallingSteps DEF GoodTodo
    <2>9. Once(Script("upgrade"), "register") /\ Later(Script("upgrade"), "removal", "register")
          /\ Later(Script("upgrade"), "runtime", "register")
      <3>1. before \in Seq(Steps) /\ Installing \in Seq(Steps)
        BY <2>4, InstallingSteps
      <3>2. \A x : Later(Installing, x, "register") => Later(before \o Installing, x, "register")
        BY <3>1, <2>7, SecondPart
      <3>3. Once(before \o Installing, "register")
        BY <3>1, <2>7, <2>8, SecondPart
      <3> QED BY <2>5, <2>8, <3>2, <3>3
    <2> QED BY <1>2, <2>6, <2>7, <2>9 DEF GoodTodo
  <1>3. CASE kind = "remove"
    <2> DEFINE a == Leaving \o RestartTextServices
               b == a \o CleanupInstall
               c == b \o Single("removal")
    <2>0. Single("removal") \in Seq(Steps) /\ StepsOf(Single("removal")) = {"removal"}
      BY Parts, SingleStep
    <2>1. a \in Seq(Steps) /\ StepsOf(a) = StepsOf(Leaving) \cup {"kill", "snapshot", "close"}
      <3>1. Leaving \in Seq(Steps)
        BY Parts
      <3>2. a \in Seq(Steps) /\ StepsOf(a) = StepsOf(Leaving) \cup StepsOf(RestartTextServices)
        BY <3>1, PreparingSteps, Joined
      <3> QED BY <3>2, PreparingSteps
    <2>2. Once(Leaving, "unregister") /\ NotBefore(Leaving, "keys", "unregister")
          /\ NotBefore(Leaving, "removal", "unregister")
      BY DEF Leaving, Once, NotBefore
    <2>3. Once(a, "unregister") /\ NotBefore(a, "keys", "unregister")
          /\ NotBefore(a, "removal", "unregister")
      BY <2>2, Parts, PreparingSteps, FirstPart
    <2> HIDE DEF a
    <2>4. b \in Seq(Steps) /\ StepsOf(b) = StepsOf(a) \cup StepsOf(CleanupInstall)
      BY <2>1, Parts, Joined
    <2>5. Once(b, "unregister") /\ NotBefore(b, "keys", "unregister")
          /\ NotBefore(b, "removal", "unregister")
      BY <2>1, <2>3, Parts, FirstPart
    <2> HIDE DEF b
    <2>6. c \in Seq(Steps) /\ StepsOf(c) = StepsOf(b) \cup {"removal"}
      BY <2>0, <2>4, Joined
    <2>7. Once(c, "unregister") /\ NotBefore(c, "keys", "unregister")
          /\ NotBefore(c, "removal", "unregister")
      BY <2>0, <2>4, <2>5, FirstPart
    <2>8. StepsOf(c) \cap {"register", "runtime", "files"} = {}
      BY <2>1, <2>4, <2>6, Parts
    <2>9. GoodTodo("remove", c)
      BY <2>6, <2>7, <2>8 DEF GoodTodo
    <2>10. Script("remove") = c
      BY DEF Script, Leaving, Single, a, b
    <2> QED BY <1>3, <2>9, <2>10
  <1> QED BY <1>1, <1>2, <1>3 DEF Kinds

LEMMA GoodTail ==
    ASSUME NEW kind, NEW s, GoodTodo(kind, s), s # <<>>
    PROVE  GoodTodo(kind, Tail(s))
  <1>1. s \in Seq(Steps)
    BY DEF GoodTodo
  <1>2. Tail(s) \in Seq(Steps) /\ StepsOf(Tail(s)) \subseteq StepsOf(s)
    BY <1>1, TailKeeps
  <1>3. \A a, b : /\ Later(s, a, b) => Later(Tail(s), a, b)
                  /\ Once(s, b) => Once(Tail(s), b)
                  /\ NotBefore(s, a, b) => NotBefore(Tail(s), a, b)
    BY <1>1, TailKeeps
  <1> QED BY <1>2, <1>3 DEF GoodTodo

-----------------------------------------------------------------------------
(* The invariant.                                                          *)

Expected(version, left) == IF version = None /\ ~left THEN {} ELSE MachineKeys

JobInv ==
    ~Idle => /\ job.kind \in Kinds /\ GoodTodo(job.kind, job.todo)
             /\ job.kind = "remove" <=> job.version = None

\* The machine's keys are those of the old version until the step that changes
\* them, and then those of the new one.  An upgrade has the old version's keys,
\* be it there or not.
RegInv ==
    /\ job.kind = "upgrade" => product # None \/ stranded
    /\ ~broken =>
         /\ Idle => keys \cap MachineKeys = Expected(product, stranded)
         /\ job.kind \in {"install", "upgrade"} =>
              keys \cap MachineKeys
                = IF "register" \in StepsOf(job.todo) THEN Expected(product, stranded) ELSE MachineKeys
         /\ job.kind = "remove" =>
              keys \cap MachineKeys
                = IF "unregister" \in StepsOf(job.todo) THEN MachineKeys ELSE {}

Inv == TypeOK /\ JobInv /\ RegInv

LEMMA NoJobFine == NoJob \in Jobs /\ NoJob.kind = "none"
  <1>1. <<>> \in Seq(Steps)
    OBVIOUS
  <1>2. [f \in Files |-> None] \in [Files -> Versions \cup {None}]
    OBVIOUS
  <1> QED BY <1>1, <1>2 DEF NoJob, Jobs

\* Without a job, and with the product as the keys say.
LEMMA JobEnds ==
    ASSUME job' = NoJob, ~broken' => keys' \cap MachineKeys = Expected(product', stranded')
    PROVE  JobInv' /\ RegInv'
  BY NoJobFine DEF JobInv, RegInv, Idle

LEMMA JobKept ==
    ASSUME Inv, job'.kind = job.kind, job'.todo = job.todo, job'.version = job.version,
           UNCHANGED <<product, stranded, broken>>, keys' \cap MachineKeys = keys \cap MachineKeys
    PROVE  JobInv' /\ RegInv'
  BY DEF Inv, JobInv, RegInv, Idle

\* The job goes on.
LEMMA GoesFine ==
    ASSUME Inv, NEW step, At(step), NEW doomed \in SUBSET Processes,
           NEW backup \in [Files -> Versions \cup {None}], Goes(doomed, backup)
    PROVE  /\ job' \in Jobs /\ JobInv' /\ job'.kind = job.kind /\ job'.todo = Tail(job.todo)
           /\ ~Idle' /\ job.todo \in Seq(Steps) /\ job.todo # <<>> /\ Head(job.todo) = step
           /\ job.kind \in Kinds /\ GoodTodo(job.kind, job.todo)
  <1>1. /\ ~Idle /\ job.todo # <<>> /\ Head(job.todo) = step /\ job \in Jobs
        /\ job.kind \in Kinds /\ GoodTodo(job.kind, job.todo)
        /\ job.kind = "remove" <=> job.version = None
    BY DEF At, Inv, JobInv, TypeOK
  <1>2. GoodTodo(job.kind, Tail(job.todo)) /\ job.todo \in Seq(Steps)
    BY <1>1, GoodTail DEF GoodTodo
  <1>3. Tail(job.todo) \in Seq(Steps)
    BY <1>2 DEF GoodTodo
  <1>4. job' = [kind |-> job.kind, version |-> job.version, elevated |-> job.elevated,
                todo |-> Tail(job.todo), doomed |-> doomed, backup |-> backup]
    BY <1>1 DEF Goes, Jobs
  <1>5. job' \in Jobs
    BY <1>1, <1>3, <1>4 DEF Jobs
  <1>6. JobInv' /\ ~Idle'
    BY <1>1, <1>2, <1>4 DEF JobInv, Idle, Kinds
  <1> QED BY <1>1, <1>2, <1>4, <1>5, <1>6

LEMMA AdvanceFine ==
    ASSUME Inv, NEW step, At(step), NEW doomed \in SUBSET Processes, Advance(doomed)
    PROVE  /\ job' \in Jobs /\ JobInv' /\ job'.kind = job.kind /\ job'.todo = Tail(job.todo)
           /\ ~Idle' /\ job.todo \in Seq(Steps) /\ job.todo # <<>> /\ Head(job.todo) = step
           /\ job.kind \in Kinds /\ GoodTodo(job.kind, job.todo)
  <1>1. job.backup \in [Files -> Versions \cup {None}]
    BY DEF Inv, TypeOK, Jobs
  <1>2. Goes(doomed, job.backup)
    BY DEF Advance
  <1> QED BY <1>1, <1>2, GoesFine

LEMMA AdvanceKeeps ==
    ASSUME Inv, NEW step, At(step), NEW doomed \in SUBSET Processes, Advance(doomed),
           step \notin {"register", "unregister"},
           UNCHANGED <<product, stranded, broken>>, keys' \cap MachineKeys = keys \cap MachineKeys
    PROVE  job' \in Jobs /\ JobInv' /\ RegInv'
  <1>1. /\ job' \in Jobs /\ JobInv' /\ job'.kind = job.kind /\ job'.todo = Tail(job.todo)
        /\ ~Idle' /\ job.todo \in Seq(Steps) /\ job.todo # <<>> /\ Head(job.todo) = step
        /\ job.kind \in Kinds /\ GoodTodo(job.kind, job.todo)
    BY AdvanceFine
  <1>2. \A b \in {"register", "unregister"} : b \in StepsOf(job'.todo) <=> b \in StepsOf(job.todo)
    BY <1>1, TailKeeps
  <1>3. RegInv'
    BY <1>1, <1>2 DEF Inv, RegInv, Idle
  <1> QED BY <1>1, <1>3

\* The same with the doomed processes as they were.
LEMMA ProceedKeeps ==
    ASSUME Inv, NEW step, At(step), Proceed, step \notin {"register", "unregister"},
           UNCHANGED <<product, stranded, broken>>, keys' \cap MachineKeys = keys \cap MachineKeys
    PROVE  job' \in Jobs /\ JobInv' /\ RegInv'
  <1>1. job.doomed \in SUBSET Processes
    BY DEF Inv, TypeOK, Jobs
  <1> QED BY <1>1, AdvanceKeeps DEF Proceed

LEMMA KeySets ==
    /\ MachineKeys \cap (UserKeys \cup {"fonts", "user"}) = {}
    /\ MachineKeys \subseteq Keys /\ UserKeys \subseteq Keys
    /\ \A k : (k \cup UserKeys) \cap MachineKeys = k \cap MachineKeys
    /\ \A k : (k \ {"fonts"}) \cap MachineKeys = k \cap MachineKeys
    /\ \A k : (k \ {"user"}) \cap MachineKeys = k \cap MachineKeys
  BY DEF MachineKeys, UserKeys, Keys

-----------------------------------------------------------------------------
(* The steps.                                                              *)

LEMMA InitInv == Init => Inv
  <1> SUFFICES ASSUME Init PROVE Inv
    OBVIOUS
  <1>1. TypeOK
    <2>1. disk \in [Files -> Versions \cup {None}]
      BY DEF Init
    <2>2. updater \in Packages /\ done \in [kind : Kinds \cup {"none"}, elevated : BOOLEAN]
      BY DEF Init, IdleUpdater, Packages, NothingDone
    <2>3. running \subseteq Processes /\ product \in Versions \cup {None} /\ keys \subseteq Keys
      BY DEF Init, Keys
    <2>4. /\ data \in BOOLEAN /\ task \in BOOLEAN /\ excused \in BOOLEAN
          /\ broken \in BOOLEAN /\ stranded \in BOOLEAN
      BY DEF Init
    <2>5. job \in Jobs /\ jobs \in 0..MaxJobs
      BY NoJobFine, InstallationAssumption DEF Init
    <2> QED BY <2>1, <2>2, <2>3, <2>4, <2>5 DEF TypeOK
  <1>2. keys \cap MachineKeys = Expected(product, stranded)
    BY DEF Init, Expected, MachineKeys
  <1> QED BY <1>1, <1>2, NoJobFine DEF Init, Inv, JobInv, RegInv, Idle

\* The steps that change neither the machine's keys nor the product.
LEMMA PlainSteps ==
    ASSUME Inv,
           \/ FindProcessIds \/ CloseProcessesGracefully \/ KillByName \/ CloseSettingsProcess
           \/ CloseProcessesUsingDirectory \/ RemovePendingDeletes \/ RemoveFontFilesAndRegistry
           \/ RemoveScheduledTask \/ RemoveUserData \/ ShutdownInputCore \/ ActivateProfile
           \/ StartRimeWarmup \/ InstallFiles
    PROVE  Inv'
  <1> USE DEF diskVars, userVars, histVars, restVars
  <1>1. CASE FindProcessIds
    <2>1. running \ {"settings"} \in SUBSET Processes
      BY DEF Inv, TypeOK
    <2>2. job' \in Jobs /\ JobInv' /\ RegInv'
      BY <1>1, <2>1, AdvanceKeeps DEF FindProcessIds
    <2> QED BY <1>1, <2>2 DEF FindProcessIds, Inv, TypeOK
  <1>2. CASE CloseProcessesGracefully
    <2>1. job' \in Jobs /\ JobInv' /\ RegInv'
      BY <1>2, AdvanceKeeps DEF CloseProcessesGracefully
    <2>2. running' \subseteq Processes
      BY <1>2 DEF CloseProcessesGracefully, Closings, Inv, TypeOK
    <2> QED BY <1>2, <2>1, <2>2 DEF CloseProcessesGracefully, Inv, TypeOK
  <1>3. CASE KillByName
    <2>1. job' \in Jobs /\ JobInv' /\ RegInv'
      BY <1>3, ProceedKeeps DEF KillByName
    <2>2. running' \subseteq Processes
      BY <1>3 DEF KillByName, Inv, TypeOK
    <2> QED BY <1>3, <2>1, <2>2 DEF KillByName, Inv, TypeOK
  <1>4. CASE CloseSettingsProcess
    <2>1. job' \in Jobs /\ JobInv' /\ RegInv'
      BY <1>4, ProceedKeeps DEF CloseSettingsProcess
    <2> QED BY <1>4, <2>1 DEF CloseSettingsProcess, Inv, TypeOK
  <1>5. CASE CloseProcessesUsingDirectory
    <2>1. job' \in Jobs /\ JobInv' /\ RegInv'
      BY <1>5, ProceedKeeps DEF CloseProcessesUsingDirectory
    <2>2. running' \subseteq Processes
      BY <1>5 DEF CloseProcessesUsingDirectory, Inv, TypeOK
    <2> QED BY <1>5, <2>1, <2>2 DEF CloseProcessesUsingDirectory, Inv, TypeOK
  <1>6. CASE RemovePendingDeletes
    <2>1. job' \in Jobs /\ JobInv' /\ RegInv'
      BY <1>6, ProceedKeeps DEF RemovePendingDeletes
    <2> QED BY <1>6, <2>1 DEF RemovePendingDeletes, Inv, TypeOK
  <1>7. CASE RemoveFontFilesAndRegistry
    <2>1. job' \in Jobs /\ JobInv' /\ RegInv'
      BY <1>7, ProceedKeeps, KeySets DEF RemoveFontFilesAndRegistry
    <2> QED BY <1>7, <2>1 DEF RemoveFontFilesAndRegistry, Inv, TypeOK
  <1>8. CASE RemoveScheduledTask
    <2>1. job' \in Jobs /\ JobInv' /\ RegInv'
      BY <1>8, ProceedKeeps DEF RemoveScheduledTask
    <2> QED BY <1>8, <2>1 DEF RemoveScheduledTask, Inv, TypeOK
  <1>9. CASE RemoveUserData
    <2>1. job' \in Jobs /\ JobInv' /\ RegInv'
      BY <1>9, ProceedKeeps DEF RemoveUserData
    <2> QED BY <1>9, <2>1 DEF RemoveUserData, Inv, TypeOK
  <1>10. CASE ShutdownInputCore
    <2>1. job' \in Jobs /\ JobInv' /\ RegInv'
      BY <1>10, ProceedKeeps DEF ShutdownInputCore
    <2> QED BY <1>10, <2>1 DEF ShutdownInputCore, Inv, TypeOK
  <1>11. CASE ActivateProfile
    <2>1. keys' \in {keys, keys \cup UserKeys}
      BY <1>11 DEF ActivateProfile
    <2>2. job' \in Jobs /\ JobInv' /\ RegInv'
      BY <1>11, <2>1, ProceedKeeps, KeySets DEF ActivateProfile
    <2>3. keys' \subseteq Keys
      BY <2>1, KeySets DEF Inv, TypeOK
    <2> QED BY <1>11, <2>2, <2>3 DEF ActivateProfile, Inv, TypeOK
  <1>12. CASE StartRimeWarmup
    <2>1. job' \in Jobs /\ JobInv' /\ RegInv'
      BY <1>12, ProceedKeeps DEF StartRimeWarmup
    <2>2. running' \subseteq Processes
      BY <1>12 DEF StartRimeWarmup, Inv, TypeOK, Processes, Workers
    <2> QED BY <1>12, <2>1, <2>2 DEF StartRimeWarmup, Inv, TypeOK
  <1>13. CASE InstallFiles
    <2>1. job' \in Jobs /\ JobInv' /\ RegInv'
      BY <1>13, ProceedKeeps DEF InstallFiles
    <2>2. disk' \in [Files -> Versions \cup {None}]
      BY <1>13 DEF InstallFiles, Inv, TypeOK, Jobs
    <2> QED BY <1>13, <2>1, <2>2 DEF InstallFiles, Inv, TypeOK
  <1> QED BY <1>1, <1>2, <1>3, <1>4, <1>5, <1>6, <1>7, <1>8, <1>9, <1>10, <1>11, <1>12, <1>13

\* The keys are deleted only after the server was unregistered.
LEMMA DeleteRegistryTreesInv ==
    ASSUME Inv, DeleteRegistryTrees
    PROVE  Inv'
  <1> USE DEF diskVars, userVars, histVars, restVars
  <1>1. /\ At("keys") /\ Proceed /\ UNCHANGED <<product, stranded, broken>> /\ keys' \subseteq keys
    BY DEF DeleteRegistryTrees
  <1>2. job.doomed \in SUBSET Processes
    BY DEF Inv, TypeOK, Jobs
  <1>3. /\ job' \in Jobs /\ JobInv' /\ job'.kind = job.kind /\ job'.todo = Tail(job.todo)
        /\ ~Idle' /\ job.todo \in Seq(Steps) /\ job.todo # <<>> /\ Head(job.todo) = "keys"
        /\ job.kind \in Kinds /\ GoodTodo(job.kind, job.todo)
    BY <1>1, <1>2, AdvanceFine DEF Proceed
  <1>4. "keys" \in StepsOf(job.todo) /\ StepsOf(Tail(job.todo)) \subseteq StepsOf(job.todo)
        /\ (NotBefore(job.todo, "keys", "unregister") => "unregister" \notin StepsOf(job.todo))
    BY <1>3, TailKeeps
  <1>5. job.kind = "remove"
    BY <1>3, <1>4 DEF GoodTodo, Kinds
  <1>6. "unregister" \notin StepsOf(job.todo)
    BY <1>3, <1>4, <1>5 DEF GoodTodo
  <1>7. ~broken => keys \cap MachineKeys = {}
    BY <1>5, <1>6 DEF Inv, RegInv
  <1>8. RegInv'
    BY <1>1, <1>3, <1>4, <1>5, <1>6, <1>7 DEF RegInv, Idle
  <1> QED BY <1>3, <1>8 DEF DeleteRegistryTrees, Inv, TypeOK

\* A failure before the registration leaves the keys of the old version.
LEMMA RollbackType ==
    ASSUME Inv, Rollback
    PROVE  /\ job' \in Jobs /\ disk' \in [Files -> Versions \cup {None}]
           /\ product' = product /\ job' = NoJob
           /\ done' \in [kind : Kinds \cup {"none"}, elevated : BOOLEAN]
  BY NoJobFine DEF Rollback, NothingDone, Inv, TypeOK, Jobs

LEMMA EnsureWindowsAppRuntimeInv ==
    ASSUME Inv, EnsureWindowsAppRuntime
    PROVE  Inv'
  <1> USE DEF diskVars, userVars, histVars, restVars
  <1>1. /\ At("runtime")
        /\ UNCHANGED <<running, keys, data, task, excused, broken, stranded, updater, jobs>>
    BY DEF EnsureWindowsAppRuntime
  <1>2. CASE Proceed /\ UNCHANGED <<diskVars, product, done>>
    <2>1. job' \in Jobs /\ JobInv' /\ RegInv'
      BY <1>1, <1>2, ProceedKeeps
    <2> QED BY <1>1, <1>2, <2>1 DEF Inv, TypeOK
  <1>3. CASE Rollback
    <2>1. /\ job.kind \in Kinds /\ GoodTodo(job.kind, job.todo)
          /\ job.todo # <<>> /\ Head(job.todo) = "runtime"
      BY <1>1 DEF Inv, JobInv, At
    <2>2. /\ "runtime" \in StepsOf(job.todo)
          /\ StepsOf(Tail(job.todo)) \subseteq StepsOf(job.todo)
          /\ Later(job.todo, "runtime", "register") => "register" \in StepsOf(Tail(job.todo))
      BY <2>1, TailKeeps DEF GoodTodo
    <2>3. job.kind \in {"install", "upgrade"} /\ "register" \in StepsOf(job.todo)
      BY <2>1, <2>2 DEF GoodTodo, Kinds
    <2>4. ~broken => keys \cap MachineKeys = Expected(product, stranded)
      BY <2>3 DEF Inv, RegInv
    <2>5. JobInv' /\ RegInv'
      BY <1>1, <1>3, <2>4, RollbackType, JobEnds
    <2> QED BY <1>1, <1>3, <2>5, RollbackType DEF Inv, TypeOK
  <1> QED BY <1>2, <1>3 DEF EnsureWindowsAppRuntime

LEMMA RegisterResult ==
    ASSUME NEW k \in SUBSET Keys, NEW r \in RegisterServer(k)
    PROVE  /\ r.keys \subseteq Keys /\ r.ok \in BOOLEAN
           /\ r.ok => r.keys \cap MachineKeys = MachineKeys
  <1> DEFINE Result(ok, in) == [ok |-> ok, keys |-> (k \ MachineKeys) \cup in]
  <1>1. \E ok \in BOOLEAN, in \in SUBSET MachineKeys :
          r = Result(ok, in) /\ (ok => in = MachineKeys)
    BY DEF RegisterServer, MachineKeys
  <1> QED BY <1>1, KeySets

LEMMA RegisterTsfInv ==
    ASSUME Inv, RegisterTsf
    PROVE  Inv'
  <1> USE DEF diskVars, userVars, histVars, restVars
  <1>1. At("register") /\ UNCHANGED <<running, data, task, excused, stranded, updater, jobs>>
    BY DEF RegisterTsf
  <1>2. PICK r \in RegisterServer(keys) :
          /\ keys' = IF r.ok THEN r.keys \cup {"user"} ELSE r.keys
          /\ broken' = ~r.ok
          /\ IF r.ok THEN Proceed /\ UNCHANGED <<diskVars, product, done>> ELSE Rollback
    BY DEF RegisterTsf
  <1>3. /\ r.keys \subseteq Keys /\ r.ok \in BOOLEAN
        /\ r.ok => r.keys \cap MachineKeys = MachineKeys
    BY RegisterResult DEF Inv, TypeOK
  <1>4. keys' \subseteq Keys /\ broken' \in BOOLEAN
    BY <1>2, <1>3 DEF Keys, UserKeys
  <1>5. CASE r.ok
    <2>1. Proceed /\ UNCHANGED <<diskVars, product, done>> /\ keys' = r.keys \cup {"user"}
      BY <1>2, <1>5
    <2>2. job.doomed \in SUBSET Processes
      BY DEF Inv, TypeOK, Jobs
    <2>3. /\ job' \in Jobs /\ JobInv' /\ job'.kind = job.kind /\ job'.todo = Tail(job.todo)
          /\ ~Idle' /\ job.todo \in Seq(Steps) /\ job.todo # <<>> /\ Head(job.todo) = "register"
          /\ job.kind \in Kinds /\ GoodTodo(job.kind, job.todo)
      BY <1>1, <2>1, <2>2, AdvanceFine DEF Proceed
    <2>4. "register" \in StepsOf(job.todo)
          /\ (Once(job.todo, "register") => "register" \notin StepsOf(Tail(job.todo)))
      BY <2>3, TailKeeps
    <2>5. job.kind \in {"install", "upgrade"}
      BY <2>3, <2>4 DEF GoodTodo, Kinds
    <2>6. "register" \notin StepsOf(job'.todo)
      BY <2>3, <2>4, <2>5 DEF GoodTodo
    <2>7. keys' \cap MachineKeys = MachineKeys
      BY <1>3, <1>5, <2>1
    <2>8. RegInv'
      BY <1>1, <2>1, <2>3, <2>5, <2>6, <2>7 DEF RegInv, Idle, Inv
    <2> QED BY <1>1, <1>4, <2>1, <2>3, <2>8 DEF Inv, TypeOK
  <1>6. CASE ~r.ok
    <2>1. Rollback /\ broken'
      BY <1>2, <1>6
    <2>2. JobInv' /\ RegInv'
      BY <2>1, RollbackType, JobEnds
    <2> QED BY <1>1, <1>4, <2>1, <2>2, RollbackType DEF Inv, TypeOK
  <1> QED BY <1>3, <1>5, <1>6

LEMMA UnregisterTsfInv ==
    ASSUME Inv, UnregisterTsf
    PROVE  Inv'
  <1> USE DEF diskVars, userVars, histVars, restVars
  <1>1. At("unregister") /\ UNCHANGED <<running, data, task, excused, stranded, updater, jobs>>
    BY DEF UnregisterTsf
  <1>2. PICK r \in UnregisterServer(keys) :
          /\ keys' = r.keys
          /\ broken' = (~r.ok \/ r.keys \cap MachineKeys # {})
          /\ IF r.ok THEN Proceed /\ UNCHANGED <<diskVars, product, done>> ELSE Rollback
    BY DEF UnregisterTsf
  <1>3. r.keys \subseteq keys /\ r.ok \in BOOLEAN
    <2>1. \E ok \in BOOLEAN : \E gone : r = [ok |-> ok, keys |-> keys \ gone]
      BY DEF UnregisterServer
    <2> QED BY <2>1
  <1>4. keys' \subseteq Keys /\ broken' \in BOOLEAN
    BY <1>2, <1>3 DEF Inv, TypeOK
  <1>5. CASE r.ok
    <2>1. Proceed /\ UNCHANGED <<diskVars, product, done>>
      BY <1>2, <1>5
    <2>2. job.doomed \in SUBSET Processes
      BY DEF Inv, TypeOK, Jobs
    <2>3. /\ job' \in Jobs /\ JobInv' /\ job'.kind = job.kind /\ job'.todo = Tail(job.todo)
          /\ ~Idle' /\ job.todo \in Seq(Steps) /\ job.todo # <<>> /\ Head(job.todo) = "unregister"
          /\ job.kind \in Kinds /\ GoodTodo(job.kind, job.todo)
      BY <1>1, <2>1, <2>2, AdvanceFine DEF Proceed
    <2>4. "unregister" \in StepsOf(job.todo)
          /\ (Once(job.todo, "unregister") => "unregister" \notin StepsOf(Tail(job.todo)))
      BY <2>3, TailKeeps
    <2>5. job.kind = "remove"
      BY <2>3, <2>4 DEF GoodTodo, Kinds
    <2>6. "unregister" \notin StepsOf(job'.todo)
      BY <2>3, <2>4, <2>5 DEF GoodTodo
    <2>7. ~broken' => keys' \cap MachineKeys = {}
      BY <1>2
    <2>8. RegInv'
      BY <2>3, <2>5, <2>6, <2>7 DEF RegInv, Idle
    <2> QED BY <1>1, <1>4, <2>1, <2>3, <2>8 DEF Inv, TypeOK
  <1>6. CASE ~r.ok
    <2>1. Rollback /\ broken'
      BY <1>2, <1>6
    <2>2. JobInv' /\ RegInv'
      BY <2>1, RollbackType, JobEnds
    <2> QED BY <1>1, <1>4, <2>1, <2>2, RollbackType DEF Inv, TypeOK
  <1> QED BY <1>3, <1>5, <1>6

\* The last step of a removal; in an upgrade the files of the old version go,
\* and its registration stays.
LEMMA RemoveFilesInv ==
    ASSUME Inv, RemoveFiles
    PROVE  Inv'
  <1> USE DEF diskVars, userVars, histVars, restVars
  <1>1. /\ At("removal") /\ UNCHANGED <<running, keys, data, task, excused, broken, updater, jobs>>
        /\ product' = None /\ stranded' = (job.kind = "upgrade")
        /\ IF Len(job.todo) = 1
           THEN /\ job' = NoJob
                /\ done' = [kind |-> job.kind, elevated |-> job.elevated]
           ELSE Goes(job.doomed, disk') /\ UNCHANGED done
    BY DEF RemoveFiles
  <1>2. disk' \in [Files -> Versions \cup {None}]
    BY DEF RemoveFiles, Inv, TypeOK
  <1>3. CASE Len(job.todo) = 1
    <2>1. /\ job' = NoJob /\ product' = None /\ stranded' = (job.kind = "upgrade")
          /\ done' = [kind |-> job.kind, elevated |-> job.elevated]
      BY <1>1, <1>3
    <2>2. /\ job.kind \in Kinds /\ GoodTodo(job.kind, job.todo) /\ job \in Jobs
          /\ job.todo # <<>> /\ Head(job.todo) = "removal"
      BY <1>1 DEF Inv, JobInv, TypeOK, At
    <2>3. /\ (Later(job.todo, "removal", "register") => "register" \in StepsOf(Tail(job.todo)))
          /\ (NotBefore(job.todo, "removal", "unregister")
                => "unregister" \notin StepsOf(job.todo))
      BY <2>2, TailKeeps DEF GoodTodo
    <2>4. StepsOf(Tail(job.todo)) = {}
      BY <1>3, <2>2 DEF StepsOf, GoodTodo
    <2>5. job.kind = "remove"
      BY <2>2, <2>3, <2>4 DEF GoodTodo, Kinds
    <2>6. "unregister" \notin StepsOf(job.todo)
      BY <2>2, <2>3, <2>5 DEF GoodTodo
    <2>7. ~broken => keys \cap MachineKeys = {}
      BY <2>5, <2>6 DEF Inv, RegInv
    <2>8. JobInv' /\ RegInv'
      BY <1>1, <2>1, <2>5, <2>7, JobEnds DEF Expected
    <2>9. done' \in [kind : Kinds \cup {"none"}, elevated : BOOLEAN]
      BY <2>1, <2>2 DEF Jobs
    <2>10. job' \in Jobs
      BY <2>1, NoJobFine
    <2> QED BY <1>1, <1>2, <2>1, <2>8, <2>9, <2>10 DEF Inv, TypeOK
  <1>4. CASE Len(job.todo) # 1
    <2>1. Goes(job.doomed, disk') /\ done' = done
      BY <1>1, <1>4
    <2>2. job.doomed \in SUBSET Processes
      BY DEF Inv, TypeOK, Jobs
    <2>3. /\ job' \in Jobs /\ JobInv' /\ job'.kind = job.kind /\ job'.todo = Tail(job.todo)
          /\ ~Idle' /\ job.todo \in Seq(Steps) /\ job.todo # <<>> /\ Head(job.todo) = "removal"
          /\ job.kind \in Kinds /\ GoodTodo(job.kind, job.todo)
      BY <1>1, <1>2, <2>1, <2>2, GoesFine
    <2>4. /\ "removal" \in StepsOf(job.todo)
          /\ \A b \in {"register", "unregister"} :
               b \in StepsOf(job'.todo) <=> b \in StepsOf(job.todo)
      BY <2>3, TailKeeps
    <2>5. job.kind # "install"
      BY <2>3, <2>4 DEF GoodTodo
    <2>6. RegInv'
      <3>1. job.kind = "upgrade" => Expected(product, stranded) = MachineKeys
        BY DEF Inv, RegInv, Expected
      <3>2. job.kind = "upgrade" => Expected(product', stranded') = MachineKeys /\ stranded'
        BY <1>1 DEF Expected
      <3>3. keys' = keys /\ broken' = broken
        BY <1>1
      <3> QED BY <2>3, <2>4, <2>5, <3>1, <3>2, <3>3 DEF Inv, RegInv, Idle
    <2> QED BY <1>1, <1>2, <2>1, <2>3, <2>6 DEF Inv, TypeOK
  <1> QED BY <1>3, <1>4

LEMMA FinishJobInv ==
    ASSUME Inv, FinishJob
    PROVE  Inv'
  <1> USE DEF diskVars, userVars, histVars, restVars
  <1>1. /\ ~Idle /\ job.todo = <<>> /\ product' = job.version /\ stranded' = FALSE
        /\ job' = NoJob
        /\ done' = [kind |-> job.kind, elevated |-> job.elevated]
        /\ UNCHANGED <<running, diskVars, keys, userVars, excused, broken, updater, jobs>>
    BY DEF FinishJob
  <1>2. job \in Jobs /\ job.kind \in Kinds /\ (job.kind = "remove" <=> job.version = None)
    BY <1>1 DEF Inv, JobInv, TypeOK
  <1>3. StepsOf(job.todo) = {}
    BY <1>1 DEF StepsOf
  <1>4. ~broken => keys \cap MachineKeys = Expected(job.version, FALSE)
    BY <1>2, <1>3 DEF Inv, RegInv, Expected, Kinds
  <1>5. JobInv' /\ RegInv'
    BY <1>1, <1>4, JobEnds
  <1>6. job' \in Jobs /\ product' \in Versions \cup {None}
        /\ done' \in [kind : Kinds \cup {"none"}, elevated : BOOLEAN]
    BY <1>1, <1>2, NoJobFine DEF Jobs
  <1> QED BY <1>1, <1>5, <1>6 DEF Inv, TypeOK

LEMMA JobStepInv ==
    ASSUME Inv, JobStep
    PROVE  Inv'
  BY PlainSteps, DeleteRegistryTreesInv, EnsureWindowsAppRuntimeInv, RegisterTsfInv,
     UnregisterTsfInv, RemoveFilesInv, FinishJobInv DEF JobStep

LEMMA StartJobInv ==
    ASSUME Inv, NEW kind \in Kinds, NEW version \in Versions \cup {None},
           NEW elevated \in BOOLEAN, StartJob(kind, version, elevated), updater' \in Packages
    PROVE  Inv'
  <1> USE DEF diskVars, userVars
  <1>1. /\ Idle /\ jobs < MaxJobs /\ ((version = None) = (kind = "remove"))
        /\ job' = [kind |-> kind, version |-> version, elevated |-> elevated,
                   todo |-> Script(kind), doomed |-> {}, backup |-> disk]
        /\ jobs' = jobs + 1 /\ excused' = FALSE /\ done' = NothingDone
        /\ UNCHANGED <<running, diskVars, keys, userVars, product, broken, stranded>>
    BY DEF StartJob
  <1>2. GoodTodo(kind, Script(kind)) /\ Script(kind) \in Seq(Steps)
    BY GoodScripts DEF GoodTodo
  <1>3. job' \in Jobs /\ ~Idle'
    BY <1>1, <1>2 DEF Jobs, Idle, Kinds, Inv, TypeOK
  <1>4. JobInv'
    BY <1>1, <1>2 DEF JobInv, Kinds
  <1>5. /\ kind = "install" => product = None /\ "register" \in StepsOf(Script(kind))
        /\ kind = "upgrade" => product # None
        /\ kind = "remove" => product # None /\ "unregister" \in StepsOf(Script(kind))
    <2>1. "register" \in StepsOf(Script("install"))
      BY InstallingSteps DEF Script
    <2>2. "unregister" \in StepsOf(Script("remove"))
      <3> DEFINE a == Leaving \o RestartTextServices
                 b == a \o CleanupInstall
      <3>1. a \in Seq(Steps) /\ StepsOf(a) = StepsOf(Leaving) \cup StepsOf(RestartTextServices)
        <4>1. Leaving \in Seq(Steps)
          BY Parts
        <4> QED BY <4>1, PreparingSteps, Joined
      <3>2. Script("remove") = b \o Single("removal")
        BY DEF Script, Leaving, Single, a, b
      <3>3. Single("removal") \in Seq(Steps)
        BY Parts, SingleStep
      <3> HIDE DEF a
      <3>4. b \in Seq(Steps) /\ StepsOf(b) = StepsOf(a) \cup StepsOf(CleanupInstall)
        BY <3>1, Parts, Joined
      <3> HIDE DEF b
      <3>5. StepsOf(Script("remove")) = StepsOf(b) \cup StepsOf(Single("removal"))
        BY <3>2, <3>3, <3>4, Joined
      <3> QED BY <3>1, <3>4, <3>5, Parts
    <2> QED BY <2>1, <2>2 DEF StartJob
  <1>6. ~broken => keys \cap MachineKeys = Expected(product, stranded)
    BY <1>1 DEF Inv, RegInv
  <1>7. RegInv'
    BY <1>1, <1>3, <1>5, <1>6 DEF RegInv, Expected, Kinds
  <1>8. jobs' \in 0..MaxJobs
    BY <1>1, InstallationAssumption DEF Inv, TypeOK
  <1>9. done' \in [kind : Kinds \cup {"none"}, elevated : BOOLEAN]
    BY <1>1 DEF NothingDone
  <1> QED BY <1>1, <1>3, <1>4, <1>7, <1>8, <1>9 DEF Inv, TypeOK

LEMMA ProcessStarts ==
    ASSUME Inv, NEW p \in Processes, Starts(p)
    PROVE  /\ running' \subseteq Processes /\ job' \in Jobs
           /\ job'.kind = job.kind /\ job'.todo = job.todo /\ job'.version = job.version
  BY DEF Starts, Inv, TypeOK, Jobs

LEMMA Meddling ==
    ASSUME Inv, Meddles
    PROVE  excused' \in BOOLEAN
  BY DEF Meddles, Inv, TypeOK

LEMMA EnvironmentInv ==
    ASSUME Inv, Environment
    PROVE  Inv'
  <1> USE DEF diskVars, userVars, histVars, restVars
  <1>1. ASSUME NEW a \in Apps, LoadService(a)
        PROVE  Inv'
    <2>1. Starts(a) /\ keys' = keys \cup UserKeys /\ Meddles
          /\ UNCHANGED <<diskVars, userVars, done, broken, restVars>>
      BY <1>1 DEF LoadService
    <2>2. /\ running' \subseteq Processes /\ job' \in Jobs
          /\ job'.kind = job.kind /\ job'.todo = job.todo /\ job'.version = job.version
      BY <2>1, ProcessStarts DEF Processes
    <2>3. JobInv' /\ RegInv'
      BY <2>1, <2>2, JobKept, KeySets
    <2>4. keys' \subseteq Keys /\ excused' \in BOOLEAN
      BY <2>1, KeySets, Meddling DEF Inv, TypeOK
    <2> QED BY <2>1, <2>2, <2>3, <2>4 DEF Inv, TypeOK
  <1>2. ASSUME NEW a \in Apps, ServiceActs(a)
        PROVE  Inv'
    <2>1. /\ Starts("core") \/ UNCHANGED <<running, job>>
          /\ data' = TRUE /\ keys' \in {keys, keys \cup UserKeys} /\ Meddles
          /\ UNCHANGED <<diskVars, task, done, broken, restVars>>
      BY <1>2 DEF ServiceActs
    <2>2. /\ running' \subseteq Processes /\ job' \in Jobs
          /\ job'.kind = job.kind /\ job'.todo = job.todo /\ job'.version = job.version
      BY <2>1, ProcessStarts DEF Processes, Workers, Inv, TypeOK
    <2>3. JobInv' /\ RegInv'
      BY <2>1, <2>2, JobKept, KeySets
    <2>4. keys' \subseteq Keys /\ excused' \in BOOLEAN
      BY <2>1, KeySets, Meddling DEF Inv, TypeOK
    <2> QED BY <2>1, <2>2, <2>3, <2>4 DEF Inv, TypeOK
  <1>3. ASSUME NEW w \in Workers, WorkerActs(w)
        PROVE  Inv'
    <2>1. /\ data' = TRUE /\ Meddles
          /\ UNCHANGED <<running, diskVars, keys, job, done, broken, restVars>>
      BY <1>3 DEF WorkerActs
    <2>2. task' \in BOOLEAN
      BY <1>3 DEF WorkerActs, InstallScheduledSync, RemoveScheduledSync, Inv, TypeOK
    <2>3. JobInv' /\ RegInv'
      BY <2>1, JobKept
    <2> QED BY <2>1, <2>2, <2>3, Meddling DEF Inv, TypeOK
  <1>4. ASSUME NEW p \in Processes, ProcessEnds(p)
        PROVE  Inv'
    <2>1. running' = running \ {p}
          /\ UNCHANGED <<diskVars, keys, userVars, job, histVars, restVars>>
      BY <1>4 DEF ProcessEnds
    <2>2. JobInv' /\ RegInv'
      BY <2>1, JobKept
    <2> QED BY <2>1, <2>2 DEF Inv, TypeOK
  <1>5. CASE StartSettings
    <2>1. Starts("settings") /\ Meddles
          /\ UNCHANGED <<diskVars, keys, userVars, done, broken, restVars>>
      BY <1>5 DEF StartSettings
    <2>2. /\ running' \subseteq Processes /\ job' \in Jobs
          /\ job'.kind = job.kind /\ job'.todo = job.todo /\ job'.version = job.version
      BY <2>1, ProcessStarts DEF Processes, Workers
    <2>3. JobInv' /\ RegInv'
      BY <2>1, <2>2, JobKept
    <2> QED BY <2>1, <2>2, <2>3, Meddling DEF Inv, TypeOK
  <1>6. CASE UserStartsJob
    <2>1. PICK kind \in Kinds, version \in Versions \cup {None}, elevated \in BOOLEAN :
            StartJob(kind, version, elevated)
      BY <1>6 DEF UserStartsJob
    <2>2. updater' \in Packages
      BY <1>6 DEF UserStartsJob, Inv, TypeOK
    <2> QED BY <2>1, <2>2, StartJobInv
  <1>7. CASE Reboot
    <2>1. /\ disk' = [f \in Files |-> AfterBoot(f)] /\ running' = {} /\ updater' = IdleUpdater
          /\ UNCHANGED <<keys, userVars, product, stranded, job, histVars, jobs>>
      BY <1>7 DEF Reboot
    <2>2. \A f \in Files : AfterBoot(f) \in Versions \cup {None}
      BY DEF AfterBoot, Inv, TypeOK
    <2>3. updater' \in Packages
      BY <2>1 DEF IdleUpdater, Packages
    <2>4. JobInv' /\ RegInv'
      BY <2>1, JobKept
    <2> QED BY <2>1, <2>2, <2>3, <2>4 DEF Inv, TypeOK
  <1> QED BY <1>1, <1>2, <1>3, <1>4, <1>5, <1>6, <1>7 DEF Environment

LEMMA UpdaterStepInv ==
    ASSUME Inv, UpdaterStep
    PROVE  Inv'
  <1> USE DEF diskVars, userVars, histVars
  <1>1. ASSUME NEW u \in Packages, Updated(u)
        PROVE  Inv'
    <2>1. updater' = u
          /\ UNCHANGED <<running, diskVars, keys, userVars, product, stranded, job, histVars, jobs>>
      BY <1>1 DEF Updated
    <2>2. JobInv' /\ RegInv'
      BY <2>1, JobKept
    <2> QED BY <2>1, <2>2 DEF Inv, TypeOK
  <1>2. IdleUpdater \in Packages
    BY DEF IdleUpdater, Packages
  <1>3. CASE UpdateApp
    <2>1. PICK tag \in Versions, whole \in BOOLEAN :
            Updated([tag |-> tag, whole |-> whole])
      BY <1>3 DEF UpdateApp
    <2>2. [tag |-> tag, whole |-> whole] \in Packages
      BY DEF Packages, Inv, TypeOK
    <2> QED BY <1>1, <2>1, <2>2
  <1>4. CASE LaunchInstaller
    <2>1. updater' \in Packages
      BY <1>2, <1>4 DEF LaunchInstaller
    <2>2. StartJob(IF product = None THEN "install" ELSE "upgrade", updater.tag, TRUE)
      BY <1>4 DEF LaunchInstaller
    <2>3. updater.tag \in Versions \cup {None}
          /\ (IF product = None THEN "install" ELSE "upgrade") \in Kinds
      BY DEF Inv, TypeOK, Packages, Kinds
    <2> QED BY <2>1, <2>2, <2>3, StartJobInv
  <1>5. CASE UpdaterGivesUp
    BY <1>1, <1>2, <1>5 DEF UpdaterGivesUp
  <1> QED BY <1>3, <1>4, <1>5 DEF UpdaterStep

LEMMA NextInv == Inv /\ [Next]_vars => Inv'
  <1> SUFFICES ASSUME Inv, [Next]_vars PROVE Inv'
    OBVIOUS
  <1>1. CASE Next
    BY <1>1, JobStepInv, EnvironmentInv, UpdaterStepInv DEF Next
  <1>2. CASE UNCHANGED vars
    <2>1. UNCHANGED <<running, disk, pending, product, keys, data, task,
                      job, done, excused, broken, stranded, updater, jobs>>
      BY <1>2 DEF vars
    <2>2. JobInv' /\ RegInv'
      BY <2>1, JobKept
    <2> QED BY <2>1, <2>2 DEF Inv, TypeOK
  <1> QED BY <1>1, <1>2

LEMMA Invariance == Spec => []Inv
  BY InitInv, NextInv, PTL DEF Spec

-----------------------------------------------------------------------------
(* The theorems.                                                           *)

(* Every variable keeps its type.                                          *)
THEOREM TypeCorrect == Spec => []TypeOK
  <1>1. Inv => TypeOK
    BY DEF Inv
  <1> QED BY <1>1, Invariance, PTL

(* However installations, upgrades and removals follow each other and are  *)
(* rolled back, when none is under way the text service is registered just *)
(* when the product is installed, unless a registration failed half way or *)
(* an upgrade failed after it had removed the old version.                 *)
THEOREM RegistrationMatchesCorrect == Spec => []RegistrationMatches
  <1>1. Inv => RegistrationMatches
    BY DEF Inv, RegInv, RegistrationMatches, Expected
  <1> QED BY <1>1, Invariance, PTL

-----------------------------------------------------------------------------
(* What a removal leaves.  Its script as one sequence: how many steps are  *)
(* left says which they are.                                               *)
Removal == <<"settings", "shutdown", "unregister", "kill", "snapshot", "close", "pending",
             "settings", "visitors", "fonts", "task", "keys", "data", "removal">>
EndOfRemoval(s) ==
    /\ Len(s) \in 1..14
    /\ \A i \in 1..Len(s) : s[i] = Removal[14 - Len(s) + i]

LEMMA StepOfRemoval ==
    ASSUME NEW n \in 1..14
    PROVE  /\ Removal[15 - n] = "unregister" <=> n = 12
           /\ Removal[15 - n] = "snapshot" <=> n = 10
           /\ Removal[15 - n] = "close" <=> n = 9
           /\ Removal[15 - n] = "fonts" <=> n = 5
           /\ Removal[15 - n] = "task" <=> n = 4
           /\ Removal[15 - n] = "keys" <=> n = 3
           /\ Removal[15 - n] = "data" <=> n = 2
           /\ Removal[15 - n] = "removal" <=> n = 1
           /\ Removal[15 - n] \notin {"files", "activate", "warmup", "runtime", "register"}
  <1>1. /\ Removal[1] = "settings" /\ Removal[2] = "shutdown" /\ Removal[3] = "unregister"
        /\ Removal[4] = "kill" /\ Removal[5] = "snapshot" /\ Removal[6] = "close"
        /\ Removal[7] = "pending" /\ Removal[8] = "settings" /\ Removal[9] = "visitors"
        /\ Removal[10] = "fonts" /\ Removal[11] = "task" /\ Removal[12] = "keys"
        /\ Removal[13] = "data" /\ Removal[14] = "removal"
    BY DEF Removal
  <1>2. \/ n = 1 \/ n = 2 \/ n = 3 \/ n = 4 \/ n = 5 \/ n = 6 \/ n = 7
        \/ n = 8 \/ n = 9 \/ n = 10 \/ n = 11 \/ n = 12 \/ n = 13 \/ n = 14
    OBVIOUS
  <1> QED BY <1>1, <1>2

LEMMA JoinedAt ==
    ASSUME NEW s \in Seq(Steps), NEW t \in Seq(Steps)
    PROVE  /\ s \o t \in Seq(Steps) /\ Len(s \o t) = Len(s) + Len(t)
           /\ \A i \in 1..Len(s) : (s \o t)[i] = s[i]
           /\ \A i \in 1..Len(t) : (s \o t)[Len(s) + i] = t[i]
  BY Concatenation

LEMMA RemovalBegins == EndOfRemoval(Script("remove")) /\ Len(Script("remove")) = 14
  <1> DEFINE a == Leaving \o RestartTextServices
             b == a \o CleanupInstall
             c == b \o Single("removal")
  <1>1. Leaving \in Seq(Steps) /\ RestartTextServices \in Seq(Steps)
        /\ CleanupInstall \in Seq(Steps) /\ Single("removal") \in Seq(Steps)
    BY Parts, PreparingSteps, SingleStep
  <1>2. RestartTextServices = <<"kill", "snapshot", "close">>
    <2>1. Single("kill") \in Seq(Steps) /\ CloseLegacyInputHosts \in Seq(Steps)
      BY Parts, SingleStep
    <2>2. RestartTextServices = Single("kill") \o CloseLegacyInputHosts
      BY DEF RestartTextServices, Single
    <2>3. Len(Single("kill")) = 1 /\ Single("kill")[1] = "kill"
      BY DEF Single
    <2>4. /\ Len(CloseLegacyInputHosts) = 2
          /\ CloseLegacyInputHosts[1] = "snapshot" /\ CloseLegacyInputHosts[2] = "close"
      BY DEF CloseLegacyInputHosts
    <2>5. /\ Len(RestartTextServices) = 3 /\ RestartTextServices[1] = "kill"
          /\ RestartTextServices[2] = "snapshot" /\ RestartTextServices[3] = "close"
      <3>1. RestartTextServices[1] = "kill"
        BY <2>1, <2>2, <2>3, Concatenation
      <3>2. RestartTextServices[1 + 1] = "snapshot" /\ RestartTextServices[1 + 2] = "close"
        BY <2>1, <2>2, <2>3, <2>4, Concatenation
      <3>3. Len(RestartTextServices) = Len(Single("kill")) + Len(CloseLegacyInputHosts)
        BY <2>1, <2>2, JoinedAt
      <3>4. Len(RestartTextServices) = 1 + 2
        BY <3>3, <2>3, <2>4, Zenon
      <3> QED BY <3>1, <3>2, <3>4
    <2> QED BY <1>1, <2>5
  <1>3. Len(Leaving) = 3 /\ Len(RestartTextServices) = 3 /\ Len(CleanupInstall) = 7
        /\ Len(Single("removal")) = 1
    BY <1>2 DEF Leaving, CleanupInstall, Single
  <1>4. a \in Seq(Steps) /\ Len(a) = 6
        /\ (\A i \in 1..3 : a[i] = Leaving[i]) /\ \A i \in 1..3 : a[3 + i] = RestartTextServices[i]
    <2>1. /\ a \in Seq(Steps) /\ Len(a) = Len(Leaving) + Len(RestartTextServices)
          /\ \A i \in 1..Len(Leaving) : a[i] = Leaving[i]
          /\ \A i \in 1..Len(RestartTextServices) :
               a[Len(Leaving) + i] = RestartTextServices[i]
      BY <1>1, JoinedAt
    <2> HIDE DEF a
    <2> QED BY <1>3, <2>1
  <1> HIDE DEF a
  <1>5. b \in Seq(Steps) /\ Len(b) = 13
        /\ (\A i \in 1..6 : b[i] = a[i]) /\ \A i \in 1..7 : b[6 + i] = CleanupInstall[i]
    <2>1. /\ b \in Seq(Steps) /\ Len(b) = Len(a) + Len(CleanupInstall)
          /\ \A i \in 1..Len(a) : b[i] = a[i]
          /\ \A i \in 1..Len(CleanupInstall) : b[Len(a) + i] = CleanupInstall[i]
      BY <1>1, <1>4, JoinedAt
    <2> HIDE DEF b
    <2> QED BY <1>3, <1>4, <2>1
  <1> HIDE DEF b
  <1>6. c \in Seq(Steps) /\ Len(c) = 14
        /\ (\A i \in 1..13 : c[i] = b[i]) /\ c[13 + 1] = Single("removal")[1]
    <2>1. /\ c \in Seq(Steps) /\ Len(c) = Len(b) + Len(Single("removal"))
          /\ \A i \in 1..Len(b) : c[i] = b[i]
          /\ \A i \in 1..Len(Single("removal")) : c[Len(b) + i] = Single("removal")[i]
      BY <1>1, <1>5, JoinedAt
    <2> HIDE DEF c
    <2>a. Len(c) = 13 + 1
      BY <1>3, <1>5, <2>1
    <2>2. Len(c) = 14 /\ 1 \in 1..1
      BY <2>a
    <2>3. c[13 + 1] = Single("removal")[1]
      BY <1>3, <1>5, <2>1, <2>2
    <2> QED BY <1>5, <2>1, <2>2, <2>3
  <1>7. Script("remove") = c
    BY DEF Script, Leaving, Single, a, b
  <1> HIDE DEF c
  <1>8. \A i \in 1..3 : Removal[i] = Leaving[i] /\ Removal[3 + i] = RestartTextServices[i]
    BY <1>2 DEF Removal, Leaving
  <1>9. \A i \in 1..7 : Removal[6 + i] = CleanupInstall[i]
    BY DEF Removal, CleanupInstall
  <1>10. Removal[14] = Single("removal")[1]
    BY DEF Removal, Single
  <1>11. \A i \in 1..6 : c[i] = Removal[i]
    <2>1. \A i \in 1..3 : c[i] = Removal[i]
      BY <1>4, <1>5, <1>6, <1>8
    <2>2. \A i \in 1..3 : c[3 + i] = Removal[3 + i]
      BY <1>4, <1>5, <1>6, <1>8
    <2>3. \A i \in 1..6 : i \in 1..3 \/ (i - 3 \in 1..3 /\ i = 3 + (i - 3))
      OBVIOUS
    <2> QED BY <2>1, <2>2, <2>3
  <1>12. \A i \in 7..13 : c[i] = Removal[i]
    <2>1. \A i \in 1..7 : c[6 + i] = Removal[6 + i]
      BY <1>5, <1>6, <1>9
    <2>2. \A i \in 7..13 : i - 6 \in 1..7 /\ i = 6 + (i - 6)
      OBVIOUS
    <2> QED BY <2>1, <2>2
  <1>13. \A i \in 1..14 : c[i] = Removal[i]
    BY <1>6, <1>10, <1>11, <1>12
  <1>14. EndOfRemoval(c)
    <2>1. \A i \in 1..Len(c) : i \in 1..14 /\ 14 - Len(c) + i = i
      BY <1>6
    <2> QED BY <1>6, <1>13, <2>1 DEF EndOfRemoval
  <1> QED BY <1>6, <1>7, <1>14

LEMMA RemovalGoesOn ==
    ASSUME NEW s \in Seq(Steps), EndOfRemoval(s)
    PROVE  /\ s # <<>> /\ Len(s) \in 1..14 /\ Head(s) = Removal[15 - Len(s)]
           /\ Len(Tail(s)) = Len(s) - 1
           /\ Len(s) # 1 => EndOfRemoval(Tail(s))
  <1>0. Len(s) \in 1..14
    BY DEF EndOfRemoval
  <1>a. s # <<>>
    <2>1. ASSUME s = <<>>
          PROVE  Len(s) = 0
      BY <2>1
    <2>2. ASSUME NEW n \in 1..14
          PROVE  n # 0
      OBVIOUS
    <2> QED BY <1>0, <2>1, <2>2
  <1>b. Head(s) = s[1] /\ Len(Tail(s)) = Len(s) - 1
        /\ \A i \in 1..Len(Tail(s)) : Tail(s)[i] = s[i + 1]
    BY <1>a
  <1>1. /\ Len(s) \in 1..14 /\ s # <<>> /\ Head(s) = s[1] /\ Len(Tail(s)) = Len(s) - 1
        /\ \A i \in 1..Len(Tail(s)) : Tail(s)[i] = s[i + 1]
    BY <1>0, <1>a, <1>b
  <1>2. s[1] = Removal[14 - Len(s) + 1]
    BY <1>1 DEF EndOfRemoval
  <1>3. ASSUME NEW i \in 1..Len(Tail(s))
        PROVE  Tail(s)[i] = Removal[14 - Len(Tail(s)) + i]
    <2>1. i + 1 \in 1..Len(s) /\ Tail(s)[i] = s[i + 1]
      BY <1>1
    <2>2. s[i + 1] = Removal[14 - Len(s) + (i + 1)]
      BY <2>1 DEF EndOfRemoval
    <2>3. 14 - Len(s) + (i + 1) = 14 - Len(Tail(s)) + i
      BY <1>1
    <2> QED BY <2>1, <2>2, <2>3
  <1>4. Len(s) # 1 => EndOfRemoval(Tail(s))
    <2>1. ASSUME NEW n \in 1..14, n # 1
          PROVE  n - 1 \in 1..14
      BY <2>1
    <2>2. Len(s) # 1 => Len(Tail(s)) \in 1..14
      BY <1>1, <2>1
    <2> QED BY <1>3, <2>2 DEF EndOfRemoval
  <1>5. 14 - Len(s) + 1 = 15 - Len(s)
    BY <1>1
  <1> QED BY <1>1, <1>2, <1>4, <1>5

NoTask == ~excused => ~task
NoKeys == ~excused => broken \/ keys \subseteq {"override", "preload"}
NoData == ~excused => ~data
Closed == running \cap Apps \subseteq Protected

\* The server goes before the processes are looked for, so that none comes
\* after them; then task, keys and data go, unless a process of ours acts.
RemovalInv ==
    job.kind = "remove" =>
      /\ EndOfRemoval(job.todo)
      /\ Len(job.todo) <= 11 => "com" \notin keys
      /\ Len(job.todo) = 9 => running \cap Apps \subseteq job.doomed
      /\ Len(job.todo) <= 8 => Closed
      /\ Len(job.todo) <= 4 => "fonts" \notin keys
      /\ Len(job.todo) <= 3 => NoTask
      /\ Len(job.todo) <= 2 => NoKeys
      /\ Len(job.todo) <= 1 => NoData
RemovedInv ==
    Idle /\ done.kind = "remove" =>
      product = None /\ "com" \notin keys /\ Closed /\ NoTask /\ NoKeys /\ NoData
LeftInv == RemovalInv /\ RemovedInv

LEMMA LenOfCleanup == Len(CleanupInstall) + 1 = 8
  BY DEF CleanupInstall

LEMMA AppsAndWorkers == "core" \notin Apps /\ "settings" \notin Apps
  BY InstallationAssumption DEF Workers

LEMMA RemovalStep ==
    ASSUME Inv, LeftInv, NEW step, At(step), job.kind = "remove"
    PROVE  /\ Len(job.todo) \in 1..14 /\ Removal[15 - Len(job.todo)] = step
           /\ Len(Tail(job.todo)) = Len(job.todo) - 1
           /\ Len(job.todo) # 1 => EndOfRemoval(Tail(job.todo))
  <1>1. job.todo \in Seq(Steps) /\ Head(job.todo) = step
    BY DEF Inv, JobInv, At, GoodTodo
  <1>2. EndOfRemoval(job.todo)
    BY DEF LeftInv, RemovalInv
  <1> QED BY <1>1, <1>2, RemovalGoesOn

LEMMA StillGoing ==
    ASSUME Inv, NEW step, At(step), NEW doomed, NEW backup, Goes(doomed, backup)
    PROVE  /\ job'.kind = job.kind /\ job'.todo = Tail(job.todo) /\ job'.doomed = doomed
           /\ ~Idle' /\ RemovedInv'
           /\ job.kind # "remove" => LeftInv'
  <1>1. /\ job'.kind = job.kind /\ job'.todo = Tail(job.todo) /\ job'.doomed = doomed
        /\ ~Idle'
    BY DEF At, Goes, Idle, Inv, TypeOK, Jobs
  <1>2. RemovedInv'
    BY <1>1 DEF RemovedInv
  <1>3. job.kind # "remove" => RemovalInv'
    BY <1>1 DEF RemovalInv
  <1> QED BY <1>1, <1>2, <1>3 DEF LeftInv

LEMMA StillJob ==
    ASSUME Inv, NEW step, At(step), NEW doomed, Advance(doomed)
    PROVE  /\ job'.kind = job.kind /\ job'.todo = Tail(job.todo) /\ job'.doomed = doomed
           /\ ~Idle' /\ RemovedInv'
           /\ job.kind # "remove" => LeftInv'
  BY StillGoing DEF Advance

LEMMA NoJobLeft ==
    ASSUME job' = NoJob, done'.kind # "remove"
    PROVE  LeftInv'
  <1>1. job'.kind = "none"
    BY DEF NoJob
  <1> QED BY <1>1 DEF LeftInv, RemovalInv, RemovedInv

LEMMA RollbackLeft == Rollback => LeftInv'
  <1>1. NothingDone.kind # "remove"
    BY DEF NothingDone
  <1> QED BY <1>1, NoJobLeft DEF Rollback


\* The facts of a removal with n steps left, before one of them.
LEMMA BeforeStep ==
    ASSUME Inv, LeftInv, NEW step, At(step), job.kind = "remove",
           NEW n, n = Len(job.todo)
    PROVE  /\ n \in 1..14 /\ Removal[15 - n] = step
           /\ n <= 11 => "com" \notin keys
           /\ n = 9 => running \cap Apps \subseteq job.doomed
           /\ n <= 8 => Closed
           /\ n <= 4 => "fonts" \notin keys
           /\ n <= 3 => NoTask
           /\ n <= 2 => NoKeys
           /\ n <= 1 => NoData
  BY RemovalStep DEF LeftInv, RemovalInv

\* And with one less, after it.
LEMMA AfterStep ==
    ASSUME Inv, LeftInv, NEW step, At(step), NEW doomed, Advance(doomed), job.kind = "remove",
           NEW n, n = Len(job.todo), n # 1,
           n <= 12 => "com" \notin keys',
           n = 10 => running' \cap Apps \subseteq doomed,
           n <= 9 => Closed',
           n <= 5 => "fonts" \notin keys',
           n <= 4 => NoTask',
           n <= 3 => NoKeys',
           n <= 2 => NoData'
    PROVE  LeftInv'
  <1>1. /\ n \in 1..14 /\ Len(job'.todo) = n - 1 /\ EndOfRemoval(job'.todo)
        /\ job'.kind = "remove" /\ RemovedInv' /\ job'.doomed = doomed
    BY RemovalStep, StillJob
  <1>2. /\ n - 1 <= 11 => n <= 12
        /\ n - 1 = 9 => n = 10
        /\ n - 1 <= 8 => n <= 9
        /\ n - 1 <= 4 => n <= 5
        /\ n - 1 <= 3 => n <= 4
        /\ n - 1 <= 2 => n <= 3
        /\ n - 1 <= 1 => n <= 2
    BY <1>1
  <1>3. RemovalInv'
    BY <1>1, <1>2 DEF RemovalInv
  <1> QED BY <1>1, <1>3 DEF LeftInv

\* A step that closes processes or nothing.
LEMMA QuietStep ==
    ASSUME Inv, LeftInv, NEW step, At(step), NEW doomed, Advance(doomed),
           step \notin {"unregister", "snapshot", "close", "fonts", "task", "keys", "data",
                        "removal"},
           running' \subseteq running,
           UNCHANGED <<keys, data, task, excused, broken>>
    PROVE  LeftInv'
  <1>1. CASE job.kind # "remove"
    BY <1>1, StillJob
  <1>2. CASE job.kind = "remove"
    <2> DEFINE n == Len(job.todo)
    <2>1. /\ n \in 1..14 /\ Removal[15 - n] = step
          /\ n <= 11 => "com" \notin keys
          /\ n <= 8 => Closed
          /\ n <= 4 => "fonts" \notin keys
          /\ n <= 3 => NoTask
          /\ n <= 2 => NoKeys
          /\ n <= 1 => NoData
      BY <1>2, BeforeStep
    <2> HIDE DEF n
    <2>2. n \notin {12, 10, 9, 5, 4, 3, 2, 1}
      BY <2>1, StepOfRemoval
    <2>3. (Closed => Closed') /\ NoTask' = NoTask /\ NoKeys' = NoKeys /\ NoData' = NoData
      BY DEF Closed, NoTask, NoKeys, NoData
    <2>4. /\ n # 1 /\ n # 10
          /\ n <= 12 => n <= 11
          /\ n <= 9 => n <= 8
          /\ n <= 5 => n <= 4
          /\ n <= 4 => n <= 3
          /\ n <= 3 => n <= 2
          /\ n <= 2 => n <= 1
      BY <2>1, <2>2
    <2>5. /\ n <= 12 => "com" \notin keys'
          /\ n = 10 => running' \cap Apps \subseteq doomed
          /\ n <= 9 => Closed'
          /\ n <= 5 => "fonts" \notin keys'
          /\ n <= 4 => NoTask'
          /\ n <= 3 => NoKeys'
          /\ n <= 2 => NoData'
      BY <2>1, <2>3, <2>4
    <2> QED BY <1>2, <2>4, <2>5, AfterStep DEF n
  <1> QED BY <1>1, <1>2

LEMMA FindProcessIdsLeft ==
    ASSUME Inv, LeftInv, FindProcessIds
    PROVE  LeftInv'
  <1> USE DEF diskVars, userVars, histVars, restVars
  <1>1. At("snapshot") /\ Advance(running \ {"settings"})
        /\ UNCHANGED <<running, keys, data, task, excused, broken>>
    BY DEF FindProcessIds
  <1>2. CASE job.kind # "remove"
    BY <1>1, <1>2, StillJob
  <1>3. CASE job.kind = "remove"
    <2> DEFINE n == Len(job.todo)
    <2>1. n \in 1..14 /\ Removal[15 - n] = "snapshot" /\ (n <= 11 => "com" \notin keys)
      BY <1>1, <1>3, BeforeStep
    <2> HIDE DEF n
    <2>a. n = 10
      BY <2>1, StepOfRemoval
    <2>2. n = 10 /\ "com" \notin keys
      BY <2>1, <2>a
    <2>3. running \cap Apps \subseteq running \ {"settings"}
      BY AppsAndWorkers
    <2>4. /\ n # 1
          /\ n <= 12 => "com" \notin keys'
          /\ n = 10 => running' \cap Apps \subseteq running \ {"settings"}
          /\ n <= 9 => Closed'
          /\ n <= 5 => "fonts" \notin keys'
          /\ n <= 4 => NoTask'
          /\ n <= 3 => NoKeys'
          /\ n <= 2 => NoData'
      BY <1>1, <2>2, <2>3
    <2> QED BY <1>1, <1>3, <2>4, AfterStep DEF n
  <1> QED BY <1>2, <1>3

LEMMA CloseProcessesGracefullyLeft ==
    ASSUME Inv, LeftInv, CloseProcessesGracefully
    PROVE  LeftInv'
  <1> USE DEF diskVars, userVars, histVars, restVars
  <1>0. PICK none : none = {}
    OBVIOUS
  <1>1. At("close") /\ Advance(none) /\ running' \in Closings(job.doomed)
        /\ UNCHANGED <<keys, data, task, excused, broken>>
    BY <1>0 DEF CloseProcessesGracefully
  <1>2. CASE job.kind # "remove"
    BY <1>1, <1>2, StillJob
  <1>3. CASE job.kind = "remove"
    <2> DEFINE n == Len(job.todo)
    <2>1. n \in 1..14 /\ Removal[15 - n] = "close" /\ (n <= 11 => "com" \notin keys)
          /\ (n = 9 => running \cap Apps \subseteq job.doomed)
      BY <1>1, <1>3, BeforeStep
    <2> HIDE DEF n
    <2>a. n = 9
      BY <2>1, StepOfRemoval
    <2>2. n = 9 /\ "com" \notin keys /\ running \cap Apps \subseteq job.doomed
      BY <2>1, <2>a
    <2>3. Closed'
      <3>1. PICK gone \in SUBSET job.doomed :
              job.doomed \ gone \subseteq Protected /\ running' = running \ gone
        BY <1>1 DEF Closings
      <3> QED BY <2>2, <3>1 DEF Closed
    <2>4. /\ n # 1
          /\ n <= 12 => "com" \notin keys'
          /\ n = 10 => running' \cap Apps \subseteq none
          /\ n <= 9 => Closed'
          /\ n <= 5 => "fonts" \notin keys'
          /\ n <= 4 => NoTask'
          /\ n <= 3 => NoKeys'
          /\ n <= 2 => NoData'
      BY <1>1, <2>2, <2>3
    <2> QED BY <1>1, <1>3, <2>4, AfterStep DEF n
  <1> QED BY <1>2, <1>3

LEMMA RemoveFontsLeft ==
    ASSUME Inv, LeftInv, RemoveFontFilesAndRegistry
    PROVE  LeftInv'
  <1> USE DEF diskVars, userVars, histVars, restVars
  <1>1. At("fonts") /\ Advance(job.doomed) /\ keys' = keys \ {"fonts"}
        /\ UNCHANGED <<running, data, task, excused, broken>>
    BY DEF RemoveFontFilesAndRegistry, Proceed
  <1>2. CASE job.kind # "remove"
    BY <1>1, <1>2, StillJob
  <1>3. CASE job.kind = "remove"
    <2> DEFINE n == Len(job.todo)
    <2>1. n \in 1..14 /\ Removal[15 - n] = "fonts" /\ (n <= 11 => "com" \notin keys)
          /\ (n <= 8 => Closed)
      BY <1>1, <1>3, BeforeStep
    <2> HIDE DEF n
    <2>a. n = 5
      BY <2>1, StepOfRemoval
    <2>2. n = 5 /\ "com" \notin keys /\ Closed
      BY <2>1, <2>a
    <2>3. Closed' /\ "com" \notin keys' /\ "fonts" \notin keys'
      BY <1>1, <2>2 DEF Closed
    <2>4. /\ n # 1
          /\ n <= 12 => "com" \notin keys'
          /\ n = 10 => running' \cap Apps \subseteq job.doomed
          /\ n <= 9 => Closed'
          /\ n <= 5 => "fonts" \notin keys'
          /\ n <= 4 => NoTask'
          /\ n <= 3 => NoKeys'
          /\ n <= 2 => NoData'
      BY <2>2, <2>3
    <2> QED BY <1>1, <1>3, <2>4, AfterStep DEF n
  <1> QED BY <1>2, <1>3

LEMMA RemoveScheduledTaskLeft ==
    ASSUME Inv, LeftInv, RemoveScheduledTask
    PROVE  LeftInv'
  <1> USE DEF diskVars, userVars, histVars, restVars
  <1>1. /\ At("task") /\ Advance(job.doomed)
        /\ UNCHANGED <<running, keys, data, broken>>
        /\ \/ task' = FALSE /\ excused' = excused
           \/ excused' = TRUE
    BY DEF RemoveScheduledTask, Proceed
  <1>2. CASE job.kind # "remove"
    BY <1>1, <1>2, StillJob
  <1>3. CASE job.kind = "remove"
    <2> DEFINE n == Len(job.todo)
    <2>1. n \in 1..14 /\ Removal[15 - n] = "task" /\ (n <= 11 => "com" \notin keys)
          /\ (n <= 8 => Closed) /\ (n <= 4 => "fonts" \notin keys)
      BY <1>1, <1>3, BeforeStep
    <2> HIDE DEF n
    <2>a. n = 4
      BY <2>1, StepOfRemoval
    <2>2. n = 4 /\ "com" \notin keys /\ Closed /\ "fonts" \notin keys
      BY <2>1, <2>a
    <2>3. NoTask'
      BY <1>1 DEF NoTask
    <2>4. Closed' /\ "com" \notin keys' /\ "fonts" \notin keys'
      BY <1>1, <2>2 DEF Closed
    <2>5. /\ n # 1
          /\ n <= 12 => "com" \notin keys'
          /\ n = 10 => running' \cap Apps \subseteq job.doomed
          /\ n <= 9 => Closed'
          /\ n <= 5 => "fonts" \notin keys'
          /\ n <= 4 => NoTask'
          /\ n <= 3 => NoKeys'
          /\ n <= 2 => NoData'
      BY <2>2, <2>3, <2>4
    <2> QED BY <1>1, <1>3, <2>5, AfterStep DEF n
  <1> QED BY <1>2, <1>3

LEMMA MachineKeysGone ==
    ASSUME Inv, At("keys"), job.kind = "remove", ~broken
    PROVE  keys \cap MachineKeys = {}
  <1>1. job.todo \in Seq(Steps) /\ job.todo # <<>> /\ Head(job.todo) = "keys"
        /\ NotBefore(job.todo, "keys", "unregister")
    BY DEF Inv, JobInv, At, GoodTodo
  <1>2. "unregister" \notin StepsOf(job.todo)
    BY <1>1, TailKeeps
  <1> QED BY <1>2 DEF Inv, RegInv

LEMMA DeleteRegistryTreesLeft ==
    ASSUME Inv, LeftInv, DeleteRegistryTrees
    PROVE  LeftInv'
  <1> USE DEF diskVars, userVars, histVars, restVars
  <1>1. /\ At("keys") /\ Advance(job.doomed)
        /\ keys' = keys \ (IF job.elevated THEN MachineKeys \cup {"user"} ELSE {"user"})
        /\ UNCHANGED <<running, data, task, excused, broken>>
    BY DEF DeleteRegistryTrees, Proceed
  <1>2. CASE job.kind # "remove"
    BY <1>1, <1>2, StillJob
  <1>3. CASE job.kind = "remove"
    <2> DEFINE n == Len(job.todo)
    <2>1. n \in 1..14 /\ Removal[15 - n] = "keys" /\ (n <= 11 => "com" \notin keys)
          /\ (n <= 8 => Closed) /\ (n <= 4 => "fonts" \notin keys) /\ (n <= 3 => NoTask)
      BY <1>1, <1>3, BeforeStep
    <2> HIDE DEF n
    <2>a. n = 3
      BY <2>1, StepOfRemoval
    <2>2. n = 3 /\ "com" \notin keys /\ Closed /\ "fonts" \notin keys /\ NoTask
      BY <2>1, <2>a
    <2>3. "com" \notin keys' /\ "fonts" \notin keys'
      BY <1>1, <2>2
    <2>4. Closed' /\ NoTask'
      BY <1>1, <2>2 DEF Closed, NoTask
    <2>5. NoKeys'
      <3>1. broken \/ keys' \subseteq {"override", "preload"}
        <4>1. ~broken => keys \cap MachineKeys = {}
          BY <1>1, <1>3, MachineKeysGone
        <4>2. keys \subseteq MachineKeys \cup {"user", "override", "preload", "fonts"}
          BY DEF Inv, TypeOK, Keys, UserKeys
        <4> QED BY <1>1, <2>2, <4>1, <4>2
      <3> QED BY <1>1, <3>1 DEF NoKeys
    <2>6. /\ n # 1
          /\ n <= 12 => "com" \notin keys'
          /\ n = 10 => running' \cap Apps \subseteq job.doomed
          /\ n <= 9 => Closed'
          /\ n <= 5 => "fonts" \notin keys'
          /\ n <= 4 => NoTask'
          /\ n <= 3 => NoKeys'
          /\ n <= 2 => NoData'
      BY <2>2, <2>3, <2>4, <2>5
    <2> QED BY <1>1, <1>3, <2>6, AfterStep DEF n
  <1> QED BY <1>2, <1>3

LEMMA RemoveUserDataLeft ==
    ASSUME Inv, LeftInv, RemoveUserData
    PROVE  LeftInv'
  <1> USE DEF diskVars, userVars, histVars, restVars
  <1>1. /\ At("data") /\ Advance(job.doomed)
        /\ UNCHANGED <<running, keys, task, broken>>
        /\ \/ data' = FALSE /\ excused' = excused
           \/ excused' = TRUE
    BY DEF RemoveUserData, Proceed
  <1>2. CASE job.kind # "remove"
    BY <1>1, <1>2, StillJob
  <1>3. CASE job.kind = "remove"
    <2> DEFINE n == Len(job.todo)
    <2>1. n \in 1..14 /\ Removal[15 - n] = "data" /\ (n <= 11 => "com" \notin keys)
          /\ (n <= 8 => Closed) /\ (n <= 4 => "fonts" \notin keys)
          /\ (n <= 3 => NoTask) /\ (n <= 2 => NoKeys)
      BY <1>1, <1>3, BeforeStep
    <2> HIDE DEF n
    <2>a. n = 2
      BY <2>1, StepOfRemoval
    <2>2. n = 2 /\ "com" \notin keys /\ Closed /\ "fonts" \notin keys /\ NoTask /\ NoKeys
      BY <2>1, <2>a
    <2>3. "com" \notin keys' /\ "fonts" \notin keys' /\ Closed'
      BY <1>1, <2>2 DEF Closed
    <2>4. NoTask'
      BY <1>1, <2>2 DEF NoTask
    <2>5. NoKeys'
      BY <1>1, <2>2 DEF NoKeys
    <2>6. NoData'
      BY <1>1 DEF NoData
    <2>7. /\ n # 1
          /\ n <= 12 => "com" \notin keys'
          /\ n = 10 => running' \cap Apps \subseteq job.doomed
          /\ n <= 9 => Closed'
          /\ n <= 5 => "fonts" \notin keys'
          /\ n <= 4 => NoTask'
          /\ n <= 3 => NoKeys'
          /\ n <= 2 => NoData'
      BY <2>2, <2>3, <2>4, <2>5, <2>6
    <2> QED BY <1>1, <1>3, <2>7, AfterStep DEF n
  <1> QED BY <1>2, <1>3

LEMMA UnregisterTsfLeft ==
    ASSUME Inv, LeftInv, UnregisterTsf
    PROVE  LeftInv'
  <1> USE DEF diskVars, userVars
  <1>1. PICK r \in UnregisterServer(keys) :
          /\ keys' = r.keys
          /\ IF r.ok THEN Proceed /\ UNCHANGED <<diskVars, product, done>> ELSE Rollback
    BY DEF UnregisterTsf
  <1>2. At("unregister")
    BY DEF UnregisterTsf
  <1>3. CASE ~r.ok
    BY <1>1, <1>3, RollbackLeft
  <1>4. CASE r.ok /\ job.kind # "remove"
    BY <1>1, <1>2, <1>4, StillJob DEF Proceed
  <1>5. CASE r.ok /\ job.kind = "remove"
    <2> DEFINE n == Len(job.todo)
    <2>1. n \in 1..14 /\ Removal[15 - n] = "unregister"
      BY <1>2, <1>5, BeforeStep
    <2> HIDE DEF n
    <2>2. n = 12
      BY <2>1, StepOfRemoval
    <2>3. "com" \notin r.keys
      BY <1>5 DEF UnregisterServer, MachineKeys
    <2>4. Advance(job.doomed)
      BY <1>1, <1>5 DEF Proceed
    <2>5. /\ n # 1
          /\ n <= 12 => "com" \notin keys'
          /\ n = 10 => running' \cap Apps \subseteq job.doomed
          /\ n <= 9 => Closed'
          /\ n <= 5 => "fonts" \notin keys'
          /\ n <= 4 => NoTask'
          /\ n <= 3 => NoKeys'
          /\ n <= 2 => NoData'
      BY <1>1, <2>2, <2>3
    <2> QED BY <1>2, <1>5, <2>4, <2>5, AfterStep DEF n
  <1> QED BY <1>3, <1>4, <1>5

LEMMA RemoveFilesLeft ==
    ASSUME Inv, LeftInv, RemoveFiles
    PROVE  LeftInv'
  <1> USE DEF diskVars, userVars, histVars, restVars
  <1>1. /\ At("removal") /\ UNCHANGED <<running, keys, data, task, excused, broken>>
        /\ product' = None
        /\ IF Len(job.todo) = 1
           THEN /\ job' = NoJob
                /\ done' = [kind |-> job.kind, elevated |-> job.elevated]
           ELSE Goes(job.doomed, disk')
    BY DEF RemoveFiles
  <1>2. CASE job.kind # "remove" /\ Len(job.todo) = 1
    <2>1. done'.kind # "remove"
      BY <1>1, <1>2
    <2> QED BY <1>1, <1>2, <2>1, NoJobLeft
  <1>3. CASE job.kind # "remove" /\ Len(job.todo) # 1
    BY <1>1, <1>3, StillGoing
  <1>4. CASE job.kind = "remove"
    <2> DEFINE n == Len(job.todo)
    <2>1. /\ n \in 1..14 /\ Removal[15 - n] = "removal"
          /\ n <= 11 => "com" \notin keys
          /\ n <= 8 => Closed
          /\ n <= 3 => NoTask
          /\ n <= 2 => NoKeys
          /\ n <= 1 => NoData
      BY <1>1, <1>4, BeforeStep
    <2> HIDE DEF n
    <2>2. n = 1
      BY <2>1, StepOfRemoval
    <2>3. "com" \notin keys /\ Closed /\ NoTask /\ NoKeys /\ NoData
      BY <2>1, <2>2
    <2>4. Closed' /\ NoTask' /\ NoKeys' /\ NoData'
      BY <1>1, <2>3 DEF Closed, NoTask, NoKeys, NoData
    <2>5. Len(job.todo) = 1
      BY <2>2 DEF n
    <2>6. job'.kind = "none" /\ product' = None /\ "com" \notin keys'
      BY <1>1, <2>3, <2>5 DEF NoJob
    <2>7. RemovalInv' /\ RemovedInv'
      BY <2>4, <2>6 DEF RemovalInv, RemovedInv
    <2> QED BY <2>7 DEF LeftInv
  <1> QED BY <1>2, <1>3, <1>4

\* The steps of a removal that change neither keys nor data, and those of the
\* other jobs.
LEMMA OtherStepsLeft ==
    ASSUME Inv, LeftInv,
           \/ KillByName \/ CloseSettingsProcess \/ CloseProcessesUsingDirectory
           \/ RemovePendingDeletes \/ ShutdownInputCore
           \/ ActivateProfile \/ StartRimeWarmup \/ InstallFiles
           \/ EnsureWindowsAppRuntime \/ RegisterTsf
    PROVE  LeftInv'
  <1> USE DEF diskVars, userVars, histVars, restVars
  <1>1. ASSUME \/ KillByName \/ CloseSettingsProcess \/ CloseProcessesUsingDirectory
               \/ RemovePendingDeletes \/ ShutdownInputCore
        PROVE  LeftInv'
    <2>1. PICK step \in {"kill", "settings", "visitors", "pending", "shutdown"} :
            /\ At(step) /\ Advance(job.doomed) /\ running' \subseteq running
            /\ UNCHANGED <<keys, data, task, excused, broken>>
      <3>1. CASE KillByName
        BY <3>1 DEF KillByName, Proceed
      <3>2. CASE CloseSettingsProcess
        BY <3>2 DEF CloseSettingsProcess, Proceed
      <3>3. CASE CloseProcessesUsingDirectory
        BY <3>3 DEF CloseProcessesUsingDirectory, Proceed
      <3>4. CASE RemovePendingDeletes
        BY <3>4 DEF RemovePendingDeletes, Proceed
      <3>5. CASE ShutdownInputCore
        BY <3>5 DEF ShutdownInputCore, Proceed
      <3> QED BY <1>1, <3>1, <3>2, <3>3, <3>4, <3>5
    <2> QED BY <2>1, QuietStep
  <1>2. ASSUME NEW step \in {"files", "activate", "warmup", "runtime", "register"}, At(step),
               Advance(job.doomed) \/ Rollback
        PROVE  LeftInv'
    <2>1. job.kind # "remove"
      <3>1. ASSUME job.kind = "remove"
            PROVE  FALSE
        <4> DEFINE n == Len(job.todo)
        <4>1. n \in 1..14 /\ Removal[15 - n] = step
          BY <1>2, <3>1, BeforeStep
        <4> HIDE DEF n
        <4> QED BY <4>1, StepOfRemoval
      <3> QED BY <3>1
    <2> QED BY <1>2, <2>1, StillJob, RollbackLeft
  <1>3. CASE ActivateProfile
    BY <1>2, <1>3 DEF ActivateProfile, Proceed
  <1>4. CASE StartRimeWarmup
    BY <1>2, <1>4 DEF StartRimeWarmup, Proceed
  <1>5. CASE InstallFiles
    BY <1>2, <1>5 DEF InstallFiles, Proceed
  <1>6. CASE EnsureWindowsAppRuntime
    BY <1>2, <1>6 DEF EnsureWindowsAppRuntime, Proceed
  <1>7. CASE RegisterTsf
    <2>1. At("register") /\ (Proceed \/ Rollback)
      BY <1>7 DEF RegisterTsf
    <2> QED BY <1>2, <2>1 DEF Proceed
  <1> QED BY <1>1, <1>3, <1>4, <1>5, <1>6, <1>7

LEMMA FinishJobLeft ==
    ASSUME Inv, LeftInv, FinishJob
    PROVE  LeftInv'
  <1>1. job.todo = <<>> /\ job' = NoJob /\ done'.kind = job.kind
    BY DEF FinishJob
  <1>2. job.kind # "remove"
    <2>1. Len(job.todo) \notin 1..14
      BY <1>1
    <2> QED BY <2>1 DEF LeftInv, RemovalInv, EndOfRemoval
  <1> QED BY <1>1, <1>2, NoJobLeft

LEMMA StartJobLeft ==
    ASSUME NEW kind, NEW version, NEW elevated, kind # "none",
           StartJob(kind, version, elevated)
    PROVE  LeftInv'
  <1>1. job'.kind = kind /\ job'.todo = Script(kind)
    BY DEF StartJob
  <1>2. RemovedInv'
    BY <1>1 DEF RemovedInv, Idle
  <1>3. RemovalInv'
    <2>1. CASE kind # "remove"
      BY <1>1, <2>1 DEF RemovalInv
    <2>2. CASE kind = "remove"
      <3>1. EndOfRemoval(job'.todo) /\ Len(job'.todo) = 14
        BY <1>1, <2>2, RemovalBegins
      <3> QED BY <3>1 DEF RemovalInv
    <2> QED BY <2>1, <2>2
  <1> QED BY <1>2, <1>3 DEF LeftInv

\* A process of ours acts: in the cleanup, and after it, that is an excuse.
LEMMA MeddlingLeft ==
    ASSUME Inv, LeftInv, Meddles, job'.kind = job.kind, job'.todo = job.todo,
           running' \cap Apps \subseteq running, job.doomed \cap Apps \subseteq job'.doomed,
           keys' \subseteq keys \cup UserKeys, UNCHANGED <<done, product, broken>>
    PROVE  LeftInv'
  <1>1. Removing => excused'
    BY DEF Meddles
  <1>2. "com" \notin UserKeys /\ "fonts" \notin UserKeys
    BY DEF UserKeys
  <1>3. Closed => Closed'
    BY DEF Closed
  <1>4. ASSUME Removing
        PROVE  NoTask' /\ NoKeys' /\ NoData'
    BY <1>1, <1>4 DEF NoTask, NoKeys, NoData
  <1>5. RemovalInv'
    <2>1. CASE job.kind # "remove"
      BY <2>1 DEF RemovalInv
    <2>2. CASE job.kind = "remove"
      <3> DEFINE n == Len(job.todo)
      <3>1. /\ EndOfRemoval(job'.todo) /\ n = Len(job'.todo) /\ n \in 1..14
            /\ n <= 11 => "com" \notin keys
            /\ n = 9 => running \cap Apps \subseteq job.doomed
            /\ n <= 8 => Closed
            /\ n <= 4 => "fonts" \notin keys
        BY <2>2 DEF LeftInv, RemovalInv, EndOfRemoval
      <3>2. n <= 8 => Removing
        BY <2>2, LenOfCleanup DEF Removing
      <3> HIDE DEF n
      <3>3. /\ n <= 11 => "com" \notin keys'
            /\ n <= 4 => "fonts" \notin keys'
        BY <1>2, <3>1
      <3>4. n = 9 => running' \cap Apps \subseteq job'.doomed
        BY <3>1
      <3>5. /\ n <= 3 => n <= 8
            /\ n <= 2 => n <= 8
            /\ n <= 1 => n <= 8
        BY <3>1
      <3>6. /\ n <= 8 => Closed'
            /\ n <= 3 => NoTask'
            /\ n <= 2 => NoKeys'
            /\ n <= 1 => NoData'
        BY <1>3, <1>4, <3>1, <3>2, <3>5
      <3> QED BY <3>1, <3>3, <3>4, <3>6 DEF RemovalInv
    <2> QED BY <2>1, <2>2
  <1>6. RemovedInv'
    <2> SUFFICES ASSUME Idle', done'.kind = "remove"
        PROVE  product' = None /\ "com" \notin keys' /\ Closed' /\ NoTask' /\ NoKeys' /\ NoData'
      BY DEF RemovedInv
    <2>1. Idle /\ done.kind = "remove"
      BY DEF Idle
    <2>2. product = None /\ "com" \notin keys /\ Closed
      BY <2>1 DEF LeftInv, RemovedInv
    <2>3. Removing
      BY <2>1, <2>2 DEF Removing
    <2> QED BY <1>2, <1>3, <1>4, <2>2, <2>3
  <1> QED BY <1>5, <1>6 DEF LeftInv

LEMMA UnmovedLeft ==
    ASSUME LeftInv, running' \subseteq running,
           UNCHANGED <<job, keys, data, task, excused, broken, product, done>>
    PROVE  LeftInv'
  <1>1. /\ Closed => Closed'
        /\ NoTask' = NoTask /\ NoKeys' = NoKeys /\ NoData' = NoData
        /\ (running \cap Apps \subseteq job.doomed => running' \cap Apps \subseteq job'.doomed)
    BY DEF Closed, NoTask, NoKeys, NoData
  <1>2. RemovalInv'
    BY <1>1 DEF LeftInv, RemovalInv
  <1>3. RemovedInv'
    BY <1>1 DEF LeftInv, RemovedInv, Idle
  <1> QED BY <1>2, <1>3 DEF LeftInv

LEMMA LoadServiceLeft ==
    ASSUME Inv, LeftInv, NEW a \in Apps, LoadService(a)
    PROVE  LeftInv'
  <1>1. /\ "com" \in keys /\ job'.kind = job.kind /\ job'.todo = job.todo /\ done' = done
    BY DEF LoadService, Starts, histVars, restVars, Inv, TypeOK, Jobs
  <1>2. ~(Idle' /\ done'.kind = "remove")
    BY <1>1 DEF Idle, LeftInv, RemovedInv
  <1>3. RemovalInv'
    <2>1. CASE job.kind # "remove"
      BY <1>1, <2>1 DEF RemovalInv
    <2>2. CASE job.kind = "remove"
      <3> DEFINE n == Len(job.todo)
      <3>1. /\ EndOfRemoval(job'.todo) /\ n = Len(job'.todo) /\ n \in 1..14 /\ ~(n <= 11)
        BY <1>1, <2>2 DEF LeftInv, RemovalInv, EndOfRemoval
      <3> HIDE DEF n
      <3>2. /\ ~(n <= 8) /\ n # 9 /\ ~(n <= 4) /\ ~(n <= 3) /\ ~(n <= 2) /\ ~(n <= 1)
        BY <3>1
      <3> QED BY <3>1, <3>2 DEF RemovalInv
    <2> QED BY <2>1, <2>2
  <1> QED BY <1>2, <1>3 DEF LeftInv, RemovedInv

LEMMA EnvironmentLeft ==
    ASSUME Inv, LeftInv, Environment
    PROVE  LeftInv'
  <1> USE DEF diskVars, userVars, histVars, restVars
  <1>1. ASSUME NEW p \in Workers, Starts(p)
        PROVE  /\ job'.kind = job.kind /\ job'.todo = job.todo
               /\ running' \cap Apps \subseteq running /\ job.doomed \cap Apps \subseteq job'.doomed
    <2>1. p \notin Apps
      BY InstallationAssumption
    <2> QED BY <1>1, <2>1 DEF Starts, Inv, TypeOK, Jobs
  <1>2. ASSUME NEW a \in Apps, ServiceActs(a)
        PROVE  LeftInv'
    <2>1. /\ Starts("core") \/ UNCHANGED <<running, job>>
          /\ keys' \subseteq keys \cup UserKeys /\ Meddles
          /\ UNCHANGED <<done, product, broken>>
      BY <1>2 DEF ServiceActs
    <2>2. "core" \in Workers
      BY DEF Workers
    <2>3. /\ job'.kind = job.kind /\ job'.todo = job.todo
          /\ running' \cap Apps \subseteq running /\ job.doomed \cap Apps \subseteq job'.doomed
      BY <1>1, <2>1, <2>2
    <2> QED BY <2>1, <2>3, MeddlingLeft
  <1>3. ASSUME NEW w \in Workers, WorkerActs(w)
        PROVE  LeftInv'
    <2>1. Meddles /\ UNCHANGED <<running, job, keys, done, product, broken>>
      BY <1>3 DEF WorkerActs
    <2> QED BY <2>1, MeddlingLeft
  <1>4. ASSUME NEW p \in Processes, ProcessEnds(p)
        PROVE  LeftInv'
    BY <1>4, UnmovedLeft DEF ProcessEnds
  <1>5. CASE StartSettings
    <2>1. Starts("settings") /\ Meddles /\ UNCHANGED <<keys, done, product, broken>>
      BY <1>5 DEF StartSettings
    <2>2. "settings" \in Workers
      BY DEF Workers
    <2> QED BY <1>1, <2>1, <2>2, MeddlingLeft
  <1>6. CASE UserStartsJob
    <2>1. PICK kind \in Kinds, version \in Versions \cup {None}, elevated \in BOOLEAN :
            StartJob(kind, version, elevated)
      BY <1>6 DEF UserStartsJob
    <2> QED BY <2>1, StartJobLeft DEF Kinds
  <1>7. CASE Reboot
    BY <1>7, UnmovedLeft DEF Reboot
  <1> QED BY <1>2, <1>3, <1>4, <1>5, <1>6, <1>7, LoadServiceLeft DEF Environment

LEMMA UpdaterStepLeft ==
    ASSUME LeftInv, UpdaterStep
    PROVE  LeftInv'
  <1> USE DEF diskVars, userVars, histVars
  <1>1. ASSUME NEW u, Updated(u)
        PROVE  LeftInv'
    BY <1>1, UnmovedLeft DEF Updated
  <1>2. CASE LaunchInstaller
    BY <1>2, StartJobLeft DEF LaunchInstaller
  <1> QED BY <1>1, <1>2 DEF UpdaterStep, UpdateApp, UpdaterGivesUp

LEMMA LeftInvariance == Spec => []LeftInv
  <1>1. Init => LeftInv
    <2>1. NoJob.kind = "none" /\ NothingDone.kind = "none"
      BY DEF NoJob, NothingDone
    <2> QED BY <2>1 DEF Init, LeftInv, RemovalInv, RemovedInv
  <1>2. Inv /\ LeftInv /\ [Next]_vars => LeftInv'
    <2> SUFFICES ASSUME Inv, LeftInv, [Next]_vars PROVE LeftInv'
      OBVIOUS
    <2>1. CASE JobStep
      BY <2>1, FindProcessIdsLeft, CloseProcessesGracefullyLeft, RemoveFontsLeft,
         RemoveScheduledTaskLeft, DeleteRegistryTreesLeft, RemoveUserDataLeft,
         UnregisterTsfLeft, RemoveFilesLeft, OtherStepsLeft, FinishJobLeft DEF JobStep
    <2>2. CASE UNCHANGED vars
      BY <2>2, UnmovedLeft DEF vars
    <2> QED BY <2>1, <2>2, EnvironmentLeft, UpdaterStepLeft DEF Next
  <1> QED BY <1>1, <1>2, Invariance, PTL DEF Spec

(* What a removal leaves: no application has the text service loaded but   *)
(* those that may not be closed, whenever they load it and whatever the    *)
(* closing of the others misses; and no data, task or keys but the input   *)
(* method override and the preloaded layout, unless a process of ours      *)
(* acted among the last steps or after them.                               *)
THEOREM NothingLeftCorrect == Spec => []NothingLeft
  <1>1. Inv /\ LeftInv => NothingLeft
    <2> SUFFICES ASSUME Inv, LeftInv PROVE NothingLeft
      OBVIOUS
    <2>1. Removing /\ (Idle => done.kind = "remove") => running \cap Apps \subseteq Protected
      <3>1. CASE Idle
        BY <3>1 DEF LeftInv, RemovedInv, Closed
      <3>2. CASE ~Idle /\ Removing
        <4>1. job.kind = "remove" /\ Len(job.todo) <= 8
          BY <3>2, LenOfCleanup DEF Removing
        <4> QED BY <4>1 DEF LeftInv, RemovalInv, Closed
      <3> QED BY <3>1, <3>2
    <2>2. Idle /\ done.kind = "remove" /\ ~excused =>
            /\ ~data /\ ~task
            /\ broken \/ keys \subseteq {"override", "preload"}
      BY DEF LeftInv, RemovedInv, NoTask, NoKeys, NoData
    <2> QED BY <2>1, <2>2 DEF NothingLeft
  <1> QED BY <1>1, Invariance, LeftInvariance, PTL

-----------------------------------------------------------------------------
(* What is pending for the next boot.                                      *)

\* Every set of numbers has a least one.
LEMMA LeastOf ==
    ASSUME NEW T \in SUBSET Nat, T # {}
    PROVE  \E n \in T : \A m \in T : n <= m
  <1>1. PICK n \in T : \A m \in T : ~ (<<m, n>> \in OpToRel(<, Nat))
    BY NatLessThanWellFounded, WFMin, Zenon
  <1>2. \A m \in T : <<m, n>> \in Nat \X Nat /\ (m < n => <<m, n>> \in OpToRel(<, Nat))
    BY Zenon DEF OpToRel
  <1>3. \A m \in T : ~(m < n)
    BY <1>1, <1>2, Zenon
  <1> QED BY <1>3

LEMMA FirstNumbers ==
    ASSUME NEW L \in Nat
    PROVE  /\ Cardinality(1..L) = L
           /\ \A P \in SUBSET (1..L) : IsFiniteSet(P) /\ Cardinality(P) \in Nat
  <1>1. IsFiniteSet(1..L) /\ Cardinality(1..L) = IF 1 > L THEN 0 ELSE L - 1 + 1
    BY FS_Interval
  <1>2. Cardinality(1..L) = L
    BY <1>1
  <1>3. ASSUME NEW P \in SUBSET (1..L)
        PROVE  IsFiniteSet(P) /\ Cardinality(P) \in Nat
    <2>1. IsFiniteSet(P)
      BY <1>1, FS_Subset
    <2> QED BY <2>1, FS_CardinalityType
  <1> QED BY <1>2, <1>3

\* Every member of a finite set of numbers has its place.
LEMMA PlaceOf ==
    ASSUME NEW L \in Nat, NEW places \in SUBSET (1..L), NEW k \in 1..Cardinality(places)
    PROVE  \E n \in places : Cardinality({m \in places : m <= n}) = k
  <1> DEFINE UpTo(n) == {m \in places : m <= n}
             T == {n \in Nat : Cardinality(UpTo(n)) >= k}
  <1>1. IsFiniteSet(places) /\ Cardinality(places) \in Nat
    BY FirstNumbers
  <1>a. \A m \in places : m \in Nat /\ 1 <= m /\ m <= L
    OBVIOUS
  <1>2. \A n : IsFiniteSet(UpTo(n)) /\ Cardinality(UpTo(n)) \in Nat
    <2> TAKE n
    <2>1. UpTo(n) \in SUBSET places
      OBVIOUS
    <2> HIDE DEF UpTo
    <2> QED BY <1>1, <2>1, FS_Subset, FS_CardinalityType
  <1>3. UpTo(L) = places
    BY <1>a
  <1>4. UpTo(0) = {}
    <2>1. \A m \in places : ~(m <= 0)
      BY <1>a
    <2> QED BY <2>1
  <1>5. ASSUME NEW n \in Nat, n # 0
        PROVE  UpTo(n) = IF n \in places THEN UpTo(n - 1) \cup {n} ELSE UpTo(n - 1)
    <2>1. \A m \in places : m <= n <=> m <= n - 1 \/ m = n
      BY <1>a, <1>5
    <2>2. n \in places => n <= n
      BY <1>5
    <2> QED BY <2>1, <2>2
  <1>6. ASSUME NEW n \in Nat, n # 0
        PROVE  n \notin UpTo(n - 1)
    BY <1>6
  <1> HIDE DEF UpTo
  <1>7. L \in T
    BY <1>1, <1>3
  <1>8. PICK n \in T : \A m \in T : n <= m
    BY <1>7, LeastOf
  <1>9. n \in Nat /\ Cardinality(UpTo(n)) >= k
    BY <1>8
  <1>10. n # 0
    BY <1>4, <1>9, FS_EmptySet
  <1>11. n - 1 \in Nat /\ n - 1 \notin T
    BY <1>8, <1>9, <1>10
  <1>12. Cardinality(UpTo(n - 1)) < k
    BY <1>1, <1>2, <1>11
  <1>13. n \in places
    BY <1>1, <1>2, <1>5, <1>9, <1>10, <1>12
  <1>14. UpTo(n) = UpTo(n - 1) \cup {n} /\ n \notin UpTo(n - 1)
    BY <1>5, <1>6, <1>9, <1>10, <1>13
  <1>15. Cardinality(UpTo(n)) = Cardinality(UpTo(n - 1)) + 1
    BY <1>2, <1>14, FS_AddElement
  <1>16. Cardinality(UpTo(n)) = k
    BY <1>1, <1>2, <1>9, <1>12, <1>15
  <1> QED BY <1>13, <1>16 DEF UpTo

LEMMA KeptIsKept ==
    ASSUME NEW pairs \in Seq(Operations)
    PROVE  /\ Kept(pairs) \in Seq(Operations)
           /\ \A k \in 1..Len(Kept(pairs)) : ~IsOurs(Kept(pairs)[k])
  <1> DEFINE places == {n \in DOMAIN pairs : ~IsOurs(pairs[n])}
             UpTo(n) == Cardinality({m \in places : m <= n})
             At_(k) == CHOOSE n \in places : UpTo(n) = k
  <1>1. Len(pairs) \in Nat /\ DOMAIN pairs = 1..Len(pairs)
        /\ \A n \in 1..Len(pairs) : pairs[n] \in Operations
    OBVIOUS
  <1>2. places \in SUBSET (1..Len(pairs))
    BY <1>1
  <1>3. IsFiniteSet(places) /\ Cardinality(places) \in Nat
    BY <1>1, <1>2, FirstNumbers
  <1>4. Kept(pairs) = [k \in 1..Cardinality(places) |-> pairs[At_(k)]]
    BY DEF Kept
  <1>5. ASSUME NEW k \in 1..Cardinality(places)
        PROVE  At_(k) \in places
    <2>1. \E n \in places : UpTo(n) = k
      BY <1>1, <1>2, PlaceOf
    <2> QED BY <2>1
  <1>6. \A n \in places : pairs[n] \in Operations /\ ~IsOurs(pairs[n])
    BY <1>1
  <1> HIDE DEF places, At_, UpTo
  <1>7. \A k \in 1..Cardinality(places) : pairs[At_(k)] \in Operations /\ ~IsOurs(pairs[At_(k)])
    BY <1>5, <1>6
  <1>8. Kept(pairs) \in Seq(Operations) /\ Len(Kept(pairs)) = Cardinality(places)
        /\ \A k \in 1..Cardinality(places) : Kept(pairs)[k] = pairs[At_(k)]
    BY <1>3, <1>4, <1>7
  <1> QED BY <1>7, <1>8

LEMMA NoneToDrop ==
    ASSUME NEW pairs \in Seq(Operations), \A n \in 1..Len(pairs) : ~IsOurs(pairs[n])
    PROVE  Kept(pairs) = pairs
  <1> DEFINE L == Len(pairs)
             places == {n \in DOMAIN pairs : ~IsOurs(pairs[n])}
             UpTo(n) == Cardinality({m \in places : m <= n})
  <1>1. L \in Nat /\ DOMAIN pairs = 1..L /\ pairs = [n \in 1..L |-> pairs[n]]
    OBVIOUS
  <1>2. places = 1..L
    BY <1>1
  <1>3. Cardinality(places) = L
    BY <1>1, <1>2, FirstNumbers
  <1>4. ASSUME NEW n \in 1..L
        PROVE  UpTo(n) = n
    <2>1. {m \in places : m <= n} = 1..n
      BY <1>1, <1>2
    <2>2. n \in Nat
      BY <1>1
    <2> HIDE DEF places
    <2> QED BY <2>1, <2>2, FirstNumbers
  <1>5. ASSUME NEW k \in 1..L
        PROVE  (CHOOSE n \in places : UpTo(n) = k) = k
    <2> HIDE DEF UpTo
    <2> QED BY <1>2, <1>4
  <1>6. Kept(pairs) = [k \in 1..L |-> pairs[CHOOSE n \in places : UpTo(n) = k]]
    BY <1>3 DEF Kept
  <1> HIDE DEF L, places, UpTo
  <1> QED BY <1>1, <1>5, <1>6

LEMMA OursDropped ==
    ASSUME NEW pairs \in Seq(Operations), NEW more \in Seq(Operations),
           \A n \in 1..Len(more) : IsOurs(more[n])
    PROVE  Kept(pairs \o more) = Kept(pairs)
  <1> DEFINE both == pairs \o more
             L == Len(pairs)
             places == {n \in DOMAIN pairs : ~IsOurs(pairs[n])}
             UpTo(n) == Cardinality({m \in places : m <= n})
  <1>1. /\ both \in Seq(Operations) /\ Len(both) = L + Len(more) /\ L \in Nat /\ Len(more) \in Nat
        /\ \A i \in 1..L : both[i] = pairs[i]
        /\ \A i \in 1..Len(both) :
             \/ i \in 1..L /\ both[i] = pairs[i]
             \/ i - L \in 1..Len(more) /\ both[i] = more[i - L]
    BY Concatenation
  <1> HIDE DEF both
  <1>2. DOMAIN both = 1..Len(both) /\ DOMAIN pairs = 1..L
    BY <1>1
  <1>3. {n \in DOMAIN both : ~IsOurs(both[n])} = places
    <2>1. ASSUME NEW n \in DOMAIN both, ~IsOurs(both[n])
          PROVE  n \in places
      BY <1>1, <1>2, <2>1
    <2>2. ASSUME NEW n \in places
          PROVE  n \in DOMAIN both /\ ~IsOurs(both[n])
      BY <1>1, <1>2
    <2> QED BY <2>1, <2>2
  <1>4. IsFiniteSet(places) /\ Cardinality(places) \in Nat
    <2>1. places \in SUBSET (1..L)
      BY <1>2
    <2> HIDE DEF places
    <2> QED BY <1>1, <2>1, FirstNumbers
  <1>5. Kept(both) = [k \in 1..Cardinality(places) |-> both[CHOOSE n \in places : UpTo(n) = k]]
    <2> DEFINE P == {n \in DOMAIN both : ~IsOurs(both[n])}
    <2>1. Kept(both) = [k \in 1..Cardinality(P)
                          |-> both[CHOOSE n \in P : Cardinality({m \in P : m <= n}) = k]]
      BY DEF Kept
    <2>2. P = places
      BY <1>3
    <2> HIDE DEF P, places
    <2> QED BY <2>1, <2>2
  <1>6. Kept(pairs) = [k \in 1..Cardinality(places) |-> pairs[CHOOSE n \in places : UpTo(n) = k]]
    BY DEF Kept
  <1>7. ASSUME NEW k \in 1..Cardinality(places)
        PROVE  both[CHOOSE n \in places : UpTo(n) = k] = pairs[CHOOSE n \in places : UpTo(n) = k]
    <2>1. \E n \in places : UpTo(n) = k
      <3>1. places \in SUBSET (1..L)
        BY <1>2
      <3> QED BY <1>1, <3>1, PlaceOf
    <2>2. (CHOOSE n \in places : UpTo(n) = k) \in places
      BY <2>1
    <2>3. \A n \in places : both[n] = pairs[n]
      BY <1>1, <1>2
    <2> QED BY <2>2, <2>3
  <1> HIDE DEF places, UpTo
  <1> QED BY <1>5, <1>6, <1>7 DEF both


LEMMA Halving ==
    ASSUME NEW k \in Nat
    PROVE  /\ \A n \in 1..k : /\ 2 * n - 1 \in 1..(2 * k) /\ 2 * n \in 1..(2 * k)
                              /\ ((2 * n - 1) + 1) \div 2 = n /\ (2 * n + 1) \div 2 = n
                              /\ (2 * n - 1) % 2 = 1 /\ (2 * n) % 2 = 0
           /\ \A i \in 1..(2 * k) : (i + 1) \div 2 \in 1..k
  OBVIOUS

\* The words of some pairs in turn: their sources and their targets.
LEMMA FlatWords ==
    ASSUME NEW pairs \in Seq(Operations)
    PROVE  /\ Flat(pairs) \in Seq(Words) /\ Len(Flat(pairs)) = 2 * Len(pairs)
           /\ \A n \in 1..Len(pairs) : /\ Flat(pairs)[2 * n - 1] = pairs[n][1]
                                       /\ Flat(pairs)[2 * n] = pairs[n][2]
  <1> DEFINE k == Len(pairs)
             Word(i) == pairs[(i + 1) \div 2][IF i % 2 = 1 THEN 1 ELSE 2]
  <1>1. k \in Nat
    OBVIOUS
  <1>2. \A n \in 1..k : pairs[n] \in Operations
    OBVIOUS
  <1>3. ASSUME NEW pair \in Operations, NEW c \in {1, 2}
        PROVE  pair[c] \in Words
    BY DEF Operations
  <1>4. Flat(pairs) = [i \in 1..(2 * k) |-> Word(i)]
    BY DEF Flat
  <1> HIDE DEF k
  <1>5. ASSUME NEW i \in 1..(2 * k)
        PROVE  Word(i) \in Words
    <2>1. pairs[(i + 1) \div 2] \in Operations
      BY <1>1, <1>2, Halving
    <2>2. (IF i % 2 = 1 THEN 1 ELSE 2) \in {1, 2}
      OBVIOUS
    <2> QED BY <1>3, <2>1, <2>2
  <1>6. ASSUME NEW n \in 1..k
        PROVE  /\ 2 * n - 1 \in 1..(2 * k) /\ 2 * n \in 1..(2 * k)
               /\ Word(2 * n - 1) = pairs[n][1] /\ Word(2 * n) = pairs[n][2]
    BY <1>1, Halving
  <1> HIDE DEF Word
  <1>7. 2 * k \in Nat
    BY <1>1
  <1>8. Flat(pairs) \in Seq(Words) /\ Len(Flat(pairs)) = 2 * k
        /\ \A i \in 1..(2 * k) : Flat(pairs)[i] = Word(i)
    BY <1>4, <1>5, <1>7
  <1> QED BY <1>6, <1>8 DEF k

\* Words in pairs, and an empty one after them: where the entries end.
LEMMA EndOfEntries ==
    ASSUME NEW k \in Nat, k # 0, NEW words, 2 * k - 1 \in words,
           \A i \in words : i \in 1..(2 * k + 1) /\ i # 2 * k + 1
    PROVE  Min({n \in Max(words)..(2 * k + 1) : n % 2 = 0} \cup {2 * k + 1}) = 2 * k
  <1> DEFINE ends == {n \in Max(words)..(2 * k + 1) : n % 2 = 0} \cup {2 * k + 1}
  <1>1. ASSUME NEW i \in words
        PROVE  i \in Nat /\ i <= 2 * k
    OBVIOUS
  <1>2. \E x \in words : \A y \in words : x >= y
    <2>1. CASE 2 * k \in words
      BY <1>1, <2>1
    <2>2. CASE 2 * k \notin words
      <3>1. ASSUME NEW y \in words
            PROVE  2 * k - 1 >= y
        <4>1. y \in Nat /\ y <= 2 * k /\ y # 2 * k
          BY <1>1, <2>2
        <4> QED BY <4>1
      <3> QED BY <3>1
    <2> QED BY <2>1, <2>2
  <1>3. Max(words) \in words /\ \A y \in words : Max(words) >= y
    BY <1>2 DEF Max
  <1>4. Max(words) \in Nat /\ Max(words) <= 2 * k /\ Max(words) >= 2 * k - 1
    BY <1>1, <1>3
  <1>5. 2 * k \in ends
    <2>1. 2 * k \in Max(words)..(2 * k + 1) /\ (2 * k) % 2 = 0
      BY <1>4
    <2> QED BY <2>1
  <1>6. ASSUME NEW n \in ends
        PROVE  n \in Nat /\ 2 * k <= n
    BY <1>4
  <1> HIDE DEF ends
  <1>7. Min(ends) \in ends /\ \A y \in ends : Min(ends) <= y
    <2>1. \E x \in ends : \A y \in ends : x <= y
      BY <1>5, <1>6
    <2> QED BY <2>1 DEF Min
  <1>8. Min(ends) = 2 * k
    <2>1. Min(ends) <= 2 * k /\ Min(ends) \in Nat /\ 2 * k <= Min(ends)
      BY <1>5, <1>6, <1>7
    <2> QED BY <2>1
  <1> QED BY <1>8 DEF ends

LEMMA FirstWords ==
    ASSUME NEW raw \in Seq(Words), NEW m \in Nat, m <= Len(raw)
    PROVE  /\ Len(SubSeq(raw, 1, m)) = m /\ DOMAIN SubSeq(raw, 1, m) = 1..m
           /\ \A i \in 1..m : SubSeq(raw, 1, m)[i] = raw[i]
  OBVIOUS

LEMMA OneWord == <<Empty>> \in Seq(Words) /\ Len(<<Empty>>) = 1 /\ <<Empty>>[1] = Empty
  <1>1. ASSUME NEW S, NEW x \in S
        PROVE  <<x>> \in Seq(S) /\ Len(<<x>>) = 1 /\ <<x>>[1] = x
    OBVIOUS
  <1>2. Empty \in Words
    BY DEF Words
  <1> QED BY <1>1, <1>2

LEMMA DomainOf ==
    ASSUME NEW S, NEW s \in Seq(S)
    PROVE  DOMAIN s = 1..Len(s)
  OBVIOUS

LEMMA OperationIsPair ==
    ASSUME NEW pair \in Operations
    PROVE  pair = <<pair[1], pair[2]>>
  <1>1. ASSUME NEW S, NEW p \in S \X S
        PROVE  p = <<p[1], p[2]>>
    OBVIOUS
  <1> QED BY <1>1 DEF Operations

\* What is written is read again as it was.
LEMMA ReadAgain ==
    ASSUME NEW pairs \in Seq(Operations)
    PROVE  Pairs(Written(pairs)) = pairs
  <1> DEFINE k == Len(pairs)
             raw == Written(pairs)
             list == Entries(raw)
             Target(n) == IF 2 * n \in DOMAIN list THEN list[2 * n] ELSE Empty
             Pair(n) == <<list[2 * n - 1], Target(n)>>
  <1>1. Pairs(raw) = [n \in 1..((Len(list) + 1) \div 2) |-> Pair(n)]
    BY DEF Pairs
  <1>2. k \in Nat /\ pairs = [n \in 1..k |-> pairs[n]]
        /\ \A n \in 1..k : pairs[n] \in Operations
    OBVIOUS
  <1>3. CASE pairs = <<>>
    <2>1. raw = <<>>
      BY <1>3 DEF Written
    <2>2. list = <<>>
      <3> HIDE DEF raw
      <3>1. {i \in DOMAIN raw : raw[i] # Empty} = {}
        BY <2>1
      <3> QED BY <3>1 DEF Entries
    <2> HIDE DEF list, raw, Pair
    <2>3. Len(list) = 0
      BY <2>2
    <2>4. (Len(list) + 1) \div 2 = 0
      BY <2>3
    <2>5. Pairs(raw) = <<>>
      BY <1>1, <2>4
    <2> QED BY <1>3, <2>5 DEF raw
  <1>4. CASE pairs # <<>>
    <2>1. raw = Flat(pairs) \o <<Empty>>
      BY <1>4 DEF Written
    <2>2. /\ Flat(pairs) \in Seq(Words) /\ Len(Flat(pairs)) = 2 * k
          /\ \A n \in 1..k : /\ Flat(pairs)[2 * n - 1] = pairs[n][1]
                             /\ Flat(pairs)[2 * n] = pairs[n][2]
      BY FlatWords
    <2>3. <<Empty>> \in Seq(Words) /\ Len(<<Empty>>) = 1 /\ <<Empty>>[1] = Empty
      BY OneWord
    <2>4. k # 0
      BY <1>4
    <2> HIDE DEF k, raw
    <2>5. /\ raw \in Seq(Words) /\ Len(raw) = 2 * k + 1 /\ raw[2 * k + 1] = Empty
          /\ \A i \in 1..(2 * k) : raw[i] = Flat(pairs)[i]
      <3>1. /\ raw \in Seq(Words) /\ Len(raw) = Len(Flat(pairs)) + Len(<<Empty>>)
            /\ \A i \in 1..Len(Flat(pairs)) : raw[i] = Flat(pairs)[i]
            /\ \A i \in 1..Len(<<Empty>>) : raw[Len(Flat(pairs)) + i] = <<Empty>>[i]
        <4>1. ASSUME NEW s \in Seq(Words), NEW t \in Seq(Words)
              PROVE  /\ s \o t \in Seq(Words) /\ Len(s \o t) = Len(s) + Len(t)
                     /\ \A i \in 1..Len(s) : (s \o t)[i] = s[i]
                     /\ \A i \in 1..Len(t) : (s \o t)[Len(s) + i] = t[i]
          BY Concatenation
        <4> QED BY <2>1, <2>2, <2>3, <4>1
      <3>2. 1 \in 1..1
        OBVIOUS
      <3> QED BY <2>2, <2>3, <3>1, <3>2
    <2>6. ASSUME NEW n \in 1..k
          PROVE  /\ 2 * n - 1 \in 1..(2 * k) /\ 2 * n \in 1..(2 * k)
                 /\ raw[2 * n - 1] = pairs[n][1] /\ raw[2 * n] = pairs[n][2]
      <3>1. 2 * n - 1 \in 1..(2 * k) /\ 2 * n \in 1..(2 * k)
        BY <1>2, Halving
      <3>2. raw[2 * n - 1] = Flat(pairs)[2 * n - 1] /\ raw[2 * n] = Flat(pairs)[2 * n]
        BY <2>5, <3>1
      <3> QED BY <2>2, <3>1, <3>2
    <2>7. raw[2 * k - 1] # Empty
      <3>1. k \in 1..k
        BY <1>2, <2>4
      <3>2. pairs[k][1] # Empty
        BY <1>2, <3>1 DEF Operations
      <3> QED BY <2>6, <3>1, <3>2
    <2>8. list = SubSeq(raw, 1, 2 * k)
      <3> DEFINE words == {i \in DOMAIN raw : raw[i] # Empty}
      <3>1. DOMAIN raw = 1..Len(raw)
        BY <2>5, DomainOf
      <3>2. 2 * k - 1 \in words /\ \A i \in words : i \in 1..(2 * k + 1) /\ i # 2 * k + 1
        <4>1. 2 * k - 1 \in 1..(2 * k + 1)
          BY <1>2, <2>4
        <4> QED BY <2>5, <2>7, <3>1, <4>1
      <3>3. list = IF words = {} THEN <<>>
                   ELSE SubSeq(raw, 1, Min({n \in Max(words)..Len(raw) : n % 2 = 0} \cup {Len(raw)}))
        BY DEF Entries
      <3> HIDE DEF words, list
      <3>4. words # {}
        BY <3>2
      <3>5. Min({n \in Max(words)..(2 * k + 1) : n % 2 = 0} \cup {2 * k + 1}) = 2 * k
        BY <1>2, <2>4, <3>2, EndOfEntries
      <3> QED BY <2>5, <3>3, <3>4, <3>5
    <2> HIDE DEF list
    <2>9. /\ Len(list) = 2 * k /\ DOMAIN list = 1..(2 * k)
          /\ \A i \in 1..(2 * k) : list[i] = raw[i]
      <3>1. 2 * k \in Nat /\ 2 * k <= 2 * k + 1
        BY <1>2
      <3> QED BY <2>5, <2>8, <3>1, FirstWords
    <2>10. (Len(list) + 1) \div 2 = k
      <3>1. (2 * k + 1) \div 2 = k
        BY <1>2
      <3> QED BY <2>9, <3>1
    <2>11. ASSUME NEW n \in 1..k
           PROVE  Pair(n) = pairs[n]
      <3>1. pairs[n] \in Operations
        BY <1>2
      <3>2. pairs[n] = <<pairs[n][1], pairs[n][2]>>
        BY <3>1, OperationIsPair
      <3>3. Pair(n) = <<pairs[n][1], pairs[n][2]>>
        BY <2>6, <2>9
      <3> QED BY <3>2, <3>3
    <2> HIDE DEF Pair
    <2>12. Pairs(raw) = [n \in 1..k |-> Pair(n)]
      BY <1>1, <2>10
    <2> QED BY <1>2, <2>11, <2>12 DEF raw
  <1> QED BY <1>3, <1>4


LEMMA EachIsOurs ==
    ASSUME NEW S, NEW more, more = Each(Deletion, S) \/ more = Each(Replacement, S)
    PROVE  more \in Seq(Operations) /\ \A n \in 1..Len(more) : IsOurs(more[n])
  <1>1. ASSUME NEW p \in Operations, NEW q \in Operations, IsOurs(p), IsOurs(q),
               NEW u, u = SeqOf("dll", p, S) \o SeqOf("exe", q, S)
        PROVE  u \in Seq(Operations) /\ \A n \in 1..Len(u) : IsOurs(u[n])
    <2>1. ASSUME NEW f, NEW r \in {p, q}
          PROVE  /\ SeqOf(f, r, S) \in Seq(Operations)
                 /\ \A n \in 1..Len(SeqOf(f, r, S)) : IsOurs(SeqOf(f, r, S)[n])
      <3>1. CASE f \in S
        <4>1. SeqOf(f, r, S) = <<r>>
          BY <3>1 DEF SeqOf
        <4>2. <<r>> \in Seq(Operations) /\ Len(<<r>>) = 1 /\ <<r>>[1] = r
          OBVIOUS
        <4>3. \A n \in 1..1 : n = 1
          OBVIOUS
        <4> QED BY <1>1, <4>1, <4>2, <4>3
      <3>2. CASE f \notin S
        <4>1. SeqOf(f, r, S) = <<>>
          BY <3>2 DEF SeqOf
        <4>2. <<>> \in Seq(Operations) /\ \A n \in 1..Len(<<>>) : FALSE
          OBVIOUS
        <4> QED BY <4>1, <4>2
      <3> QED BY <3>1, <3>2
    <2> DEFINE s == SeqOf("dll", p, S)
               t == SeqOf("exe", q, S)
    <2>2. /\ s \in Seq(Operations) /\ \A n \in 1..Len(s) : IsOurs(s[n])
          /\ t \in Seq(Operations) /\ \A n \in 1..Len(t) : IsOurs(t[n])
      BY <2>1
    <2>3. u = s \o t
      BY <1>1
    <2> HIDE DEF s, t
    <2>4. /\ s \o t \in Seq(Operations)
          /\ \A i \in 1..Len(s \o t) :
               \/ i \in 1..Len(s) /\ (s \o t)[i] = s[i]
               \/ i - Len(s) \in 1..Len(t) /\ (s \o t)[i] = t[i - Len(s)]
      BY <2>2, Concatenation
    <2> QED BY <2>2, <2>3, <2>4
  <1>2. \A f \in Files : f \in Ours /\ f # Empty /\ f \in Words
    BY DEF Files, Ours, Empty, Words
  <1>3. "tmp" \in Ours /\ "tmp" # Empty /\ "tmp" \in Words /\ Empty \in Words
    BY DEF Ours, Empty, Words
  <1>4. \A f \in Files : /\ Deletion(f) \in Operations /\ IsOurs(Deletion(f))
                         /\ Replacement(f) \in Operations /\ IsOurs(Replacement(f))
    BY <1>2, <1>3 DEF Deletion, Replacement, Operations, IsOurs, Named
  <1>5. "dll" \in Files /\ "exe" \in Files
    BY DEF Files
  <1>6. \/ more = SeqOf("dll", Deletion("dll"), S) \o SeqOf("exe", Deletion("exe"), S)
        \/ more = SeqOf("dll", Replacement("dll"), S) \o SeqOf("exe", Replacement("exe"), S)
    BY DEF Each
  <1> QED BY <1>1, <1>4, <1>5, <1>6

LEMMA AddedOnly ==
    ASSUME NEW raw, Pairs(raw) \in Seq(Operations), NEW S, NEW more,
           more = Each(Deletion, S) \/ more = Each(Replacement, S)
    PROVE  /\ Pairs(Scheduled(raw, more)) \in Seq(Operations)
           /\ Foreign(Scheduled(raw, more)) = Foreign(raw)
  <1>1. more \in Seq(Operations) /\ \A n \in 1..Len(more) : IsOurs(more[n])
    BY EachIsOurs
  <1>2. Pairs(raw) \o more \in Seq(Operations)
    BY <1>1, Concatenation
  <1>3. Pairs(Scheduled(raw, more)) = Pairs(raw) \o more
    BY <1>2, ReadAgain DEF Scheduled
  <1>4. Kept(Pairs(raw) \o more) = Kept(Pairs(raw))
    BY <1>1, OursDropped
  <1> QED BY <1>2, <1>3, <1>4 DEF Foreign

NoneOurs(raw) == \A n \in DOMAIN Pairs(raw) : ~IsOurs(Pairs(raw)[n])

LEMMA OursRemovedOnly ==
    ASSUME NEW raw, Pairs(raw) \in Seq(Operations)
    PROVE  /\ Pairs(RemoveStalePendingDeletes(raw)) \in Seq(Operations)
           /\ Foreign(RemoveStalePendingDeletes(raw)) = Foreign(raw)
           /\ NoneOurs(RemoveStalePendingDeletes(raw))
  <1> DEFINE pairs == Pairs(raw)
             kept == Kept(pairs)
  <1>1. RemoveStalePendingDeletes(raw)
          = IF \E n \in DOMAIN pairs : IsOurs(pairs[n]) THEN Written(kept) ELSE raw
    BY DEF RemoveStalePendingDeletes
  <1>2. /\ kept \in Seq(Operations)
        /\ \A k \in 1..Len(kept) : ~IsOurs(kept[k])
    BY KeptIsKept
  <1>3. Pairs(Written(kept)) = kept
    BY <1>2, ReadAgain
  <1>4. Kept(kept) = kept
    BY <1>2, NoneToDrop
  <1>5. DOMAIN kept = 1..Len(kept)
    BY <1>2, DomainOf
  <1> HIDE DEF kept
  <1>6. CASE \E n \in DOMAIN pairs : IsOurs(pairs[n])
    <2>1. RemoveStalePendingDeletes(raw) = Written(kept)
      BY <1>1, <1>6
    <2>2. Foreign(raw) = kept
      BY DEF Foreign, kept
    <2> QED BY <1>2, <1>3, <1>4, <1>5, <2>1, <2>2 DEF Foreign, NoneOurs
  <1>7. CASE ~ \E n \in DOMAIN pairs : IsOurs(pairs[n])
    BY <1>1, <1>7 DEF NoneOurs
  <1> QED BY <1>6, <1>7

LEMMA NothingPending == Pairs(<<>>) \in Seq(Operations) /\ NoneOurs(<<>>)
  <1>1. <<>> \in Seq(Operations) /\ DOMAIN <<>> = {}
    OBVIOUS
  <1>2. Written(<<>>) = <<>>
    BY DEF Written
  <1>3. Pairs(<<>>) = <<>>
    BY <1>1, <1>2, ReadAgain
  <1> QED BY <1>1, <1>3 DEF NoneOurs

PairsInv == Pairs(pending) \in Seq(Operations)

LEMMA OtherActions ==
    ASSUME Next, ~RemovePendingDeletes, ~RemoveFiles, ~InstallFiles, ~Reboot
    PROVE  pending' = pending
  <1> USE DEF diskVars, Updated
  <1>1. CASE JobStep
    BY <1>1 DEF JobStep, FindProcessIds, CloseProcessesGracefully, KillByName,
       CloseSettingsProcess, CloseProcessesUsingDirectory, RemoveFontFilesAndRegistry,
       RemoveScheduledTask, DeleteRegistryTrees, RemoveUserData, ShutdownInputCore,
       ActivateProfile, StartRimeWarmup, EnsureWindowsAppRuntime, RegisterTsf, UnregisterTsf,
       Rollback, FinishJob
  <1>2. CASE Environment
    BY <1>2 DEF Environment, LoadService, ServiceActs, WorkerActs, ProcessEnds, StartSettings,
       UserStartsJob, StartJob
  <1>3. CASE UpdaterStep
    BY <1>3 DEF UpdaterStep, UpdateApp, LaunchInstaller, UpdaterGivesUp, StartJob
  <1> QED BY <1>1, <1>2, <1>3 DEF Next

LEMMA PendingStep ==
    ASSUME PairsInv, [Next]_vars
    PROVE  PairsInv' /\ (~Reboot => Foreign(pending') = Foreign(pending))
  <1>1. CASE RemovePendingDeletes
    <2>1. pending' = RemoveStalePendingDeletes(pending) \/ pending' = pending
      BY <1>1 DEF RemovePendingDeletes
    <2> QED BY <2>1, OursRemovedOnly DEF PairsInv
  <1>2. CASE RemoveFiles \/ InstallFiles
    <2>1. \E S, more : /\ more = Each(Deletion, S) \/ more = Each(Replacement, S)
                       /\ pending' = Scheduled(pending, more)
      BY <1>2 DEF RemoveFiles, InstallFiles
    <2> QED BY <2>1, AddedOnly DEF PairsInv
  <1>3. CASE Reboot
    <2>1. pending' = <<>>
      BY <1>3 DEF Reboot
    <2> QED BY <1>3, <2>1, NothingPending DEF PairsInv
  <1>4. CASE pending' = pending
    BY <1>4 DEF PairsInv
  <1> QED BY <1>1, <1>2, <1>3, <1>4, OtherActions DEF vars

LEMMA PairsInvariance == Spec => []PairsInv
  <1>1. Init => PairsInv
    BY PendingAssumption DEF Init, PairsInv
  <1>2. PairsInv /\ [Next]_vars => PairsInv'
    BY PendingStep
  <1> QED BY <1>1, <1>2, PTL DEF Spec

(* Whatever is pending, and however often our commands and the installer   *)
(* rewrite it, what other programs have pending is kept as it is and in    *)
(* its order, until the boot that does it.                                 *)
THEOREM OthersKeptCorrect == Spec => OthersKept
  <1>1. PairsInv /\ [Next]_vars => [~Reboot => Foreign(pending') = Foreign(pending)]_pending
    BY PendingStep
  <1> QED BY <1>1, PairsInvariance, PTL DEF Spec, OthersKept


LEMMA LaterKept ==
    ASSUME NEW s \in Seq(Steps), NEW t \in Seq(Steps), NEW a, NEW b
    PROVE  /\ b \in StepsOf(t) /\ Later(t, a, b) => Later(s \o t, a, b)
           /\ a \notin StepsOf(t) /\ Later(s, a, b) => Later(s \o t, a, b)
  <1> DEFINE u == s \o t
  <1>1. /\ Len(u) = Len(s) + Len(t) /\ Len(s) \in Nat /\ Len(t) \in Nat
        /\ \A i \in 1..Len(s) : u[i] = s[i]
        /\ \A i \in 1..Len(t) : u[Len(s) + i] = t[i]
        /\ \A i \in 1..Len(u) :
             \/ i \in 1..Len(s) /\ u[i] = s[i]
             \/ i - Len(s) \in 1..Len(t) /\ u[i] = t[i - Len(s)]
    BY Concatenation
  <1> HIDE DEF u
  <1>2. ASSUME b \in StepsOf(t), Later(t, a, b), NEW i \in 1..Len(u), u[i] = a
        PROVE  \E j \in 1..Len(u) : i < j /\ u[j] = b
    <2>1. CASE i \in 1..Len(s)
      <3>1. PICK k \in 1..Len(t) : t[k] = b
        BY <1>2 DEF StepsOf
      <3>2. Len(s) + k \in 1..Len(u) /\ u[Len(s) + k] = b /\ i < Len(s) + k
        BY <1>1, <2>1, <3>1
      <3> QED BY <3>2
    <2>2. CASE i - Len(s) \in 1..Len(t) /\ t[i - Len(s)] = a
      <3>1. PICK j \in 1..Len(t) : i - Len(s) < j /\ t[j] = b
        BY <1>2, <2>2 DEF Later
      <3>2. Len(s) + j \in 1..Len(u) /\ u[Len(s) + j] = b /\ i < Len(s) + j
        BY <1>1, <3>1
      <3> QED BY <3>2
    <2> QED BY <1>1, <1>2, <2>1, <2>2
  <1>3. ASSUME a \notin StepsOf(t), Later(s, a, b), NEW i \in 1..Len(u), u[i] = a
        PROVE  \E j \in 1..Len(u) : i < j /\ u[j] = b
    <2>1. i \in 1..Len(s) /\ s[i] = a
      BY <1>1, <1>3 DEF StepsOf
    <2>2. PICK j \in 1..Len(s) : i < j /\ s[j] = b
      BY <1>3, <2>1 DEF Later
    <2>3. j \in 1..Len(u) /\ u[j] = b
      BY <1>1, <2>2
    <2> QED BY <2>2, <2>3
  <1>4. /\ b \in StepsOf(t) /\ Later(t, a, b) => Later(u, a, b)
        /\ a \notin StepsOf(t) /\ Later(s, a, b) => Later(u, a, b)
    BY <1>2, <1>3 DEF Later
  <1> QED BY <1>4 DEF u

\* The files are put in place and the old ones removed before what is pending
\* is looked through.
Replacing == {"files", "removal"}
Looks(s) == /\ s \in Seq(Steps) /\ \A a \in Replacing : Later(s, a, "pending")

LEMMA ScriptsLook ==
    ASSUME NEW kind \in {"install", "upgrade"}
    PROVE  Looks(Script(kind)) /\ "pending" \in StepsOf(Script(kind))
  <1>1. ASSUME NEW a
        PROVE  a \notin StepsOf(PrepareInstall) => Later(PrepareInstall, a, "pending")
    BY DEF StepsOf, Later
  <1>2. ASSUME NEW a \in Replacing
        PROVE  Later(Installing, a, "pending")
    <2> DEFINE first == Single("files") \o PrepareInstall
    <2>1. Single("files") \in Seq(Steps) /\ PrepareInstall \in Seq(Steps)
      BY Parts, SingleStep, PreparingSteps
    <2>2. "pending" \in StepsOf(PrepareInstall) /\ a \notin StepsOf(PrepareInstall)
      BY PreparingSteps DEF Replacing
    <2>3. first \in Seq(Steps) /\ Later(first, a, "pending")
      BY <1>1, <2>1, <2>2, LaterKept, Joined
    <2>4. Registering \in Seq(Steps) /\ a \notin StepsOf(Registering)
      BY Parts DEF Replacing
    <2>5. Installing = first \o Registering
      BY DEF Installing, Registering, Single
    <2> HIDE DEF first
    <2> QED BY <2>3, <2>4, <2>5, LaterKept
  <1>3. Installing \in Seq(Steps) /\ "pending" \in StepsOf(Installing)
    BY InstallingSteps
  <1>4. CASE kind = "install"
    BY <1>2, <1>3, <1>4 DEF Script, Looks
  <1>5. CASE kind = "upgrade"
    <2> DEFINE before == BeforeUpgrade \o Single("removal")
    <2>1. before \in Seq(Steps)
      <3> DEFINE preparing == Single("shutdown") \o PrepareInstall
      <3>1. Single("shutdown") \in Seq(Steps) /\ Single("removal") \in Seq(Steps)
            /\ PrepareInstall \in Seq(Steps) /\ RestartTextServices \in Seq(Steps)
        BY Parts, SingleStep, PreparingSteps
      <3>2. preparing \in Seq(Steps)
        BY <3>1, Joined
      <3>3. BeforeUpgrade = preparing \o RestartTextServices
        BY DEF BeforeUpgrade, Single
      <3> HIDE DEF preparing
      <3>4. BeforeUpgrade \in Seq(Steps)
        BY <3>1, <3>2, <3>3, Joined
      <3> QED BY <3>1, <3>4, Joined
    <2>2. Script("upgrade") = before \o Installing
      BY DEF Script, Single
    <2> HIDE DEF before
    <2>3. Script("upgrade") \in Seq(Steps) /\ "pending" \in StepsOf(Script("upgrade"))
      BY <1>3, <2>1, <2>2, Joined
    <2>4. ASSUME NEW a \in Replacing
          PROVE  Later(Script("upgrade"), a, "pending")
      BY <1>2, <1>3, <2>1, <2>2, LaterKept
    <2> QED BY <1>5, <2>3, <2>4 DEF Looks
  <1> QED BY <1>4, <1>5

Putting == {"install", "upgrade"}
SafeInv ==
    /\ job.kind \in Putting => Looks(job.todo)
    /\ job.kind \in Putting /\ job.elevated
       /\ StepsOf(job.todo) \cap (Replacing \cup {"pending"}) = {} => NoneOurs(pending)
    /\ Idle /\ done.kind \in Putting /\ done.elevated => NoneOurs(pending)

\* The job goes on with a step that leaves alone what is pending.
LEMMA SafeGoing ==
    ASSUME Inv, SafeInv, NEW step, At(step), NEW doomed, NEW backup, Goes(doomed, backup),
           \/ step \notin Replacing \cup {"pending"} /\ pending' = pending
           \/ step \in Replacing
           \/ job.elevated => NoneOurs(pending')
    PROVE  SafeInv'
  <1>1. /\ job'.kind = job.kind /\ job'.todo = Tail(job.todo) /\ ~Idle'
        /\ job'.elevated = job.elevated
        /\ job.todo \in Seq(Steps) /\ job.todo # <<>> /\ Head(job.todo) = step
    BY DEF At, Goes, Idle, Inv, JobInv, GoodTodo, TypeOK, Jobs
  <1>2. /\ Tail(job.todo) \in Seq(Steps)
        /\ \A b : b \in StepsOf(job.todo) => b \in StepsOf(Tail(job.todo)) \/ step = b
        /\ \A a, b : Later(job.todo, a, b) => Later(Tail(job.todo), a, b)
        /\ Later(job.todo, step, "pending") => "pending" \in StepsOf(Tail(job.todo))
    BY <1>1, TailKeeps
  <1>3. job'.kind \in Putting => Looks(job'.todo)
    BY <1>1, <1>2 DEF SafeInv, Looks
  <1>4. ASSUME job'.kind \in Putting, job'.elevated,
               StepsOf(job'.todo) \cap (Replacing \cup {"pending"}) = {}
        PROVE  NoneOurs(pending')
    <2>1. step \notin Replacing
      <3>1. ASSUME step \in Replacing
            PROVE  FALSE
        <4>1. Later(job.todo, step, "pending")
          BY <1>1, <1>4, <3>1 DEF SafeInv, Looks
        <4> QED BY <1>1, <1>2, <1>4, <4>1
      <3> QED BY <3>1
    <2>2. CASE job.elevated => NoneOurs(pending')
      BY <1>1, <1>4, <2>2
    <2>3. CASE step \notin Replacing \cup {"pending"} /\ pending' = pending
      <3>1. StepsOf(job.todo) \cap (Replacing \cup {"pending"}) = {}
        BY <1>1, <1>2, <1>4, <2>3
      <3>2. NoneOurs(pending)
        BY <1>1, <1>4, <3>1 DEF SafeInv
      <3> QED BY <2>3, <3>2
    <2> QED BY <2>1, <2>2, <2>3
  <1> QED BY <1>1, <1>3, <1>4 DEF SafeInv

LEMMA SafeAdvance ==
    ASSUME Inv, SafeInv, NEW step, At(step), NEW doomed, Advance(doomed),
           \/ step \notin Replacing \cup {"pending"} /\ pending' = pending
           \/ step \in Replacing
           \/ job.elevated => NoneOurs(pending')
    PROVE  SafeInv'
  BY SafeGoing DEF Advance

LEMMA SafeStays ==
    ASSUME SafeInv, job'.kind = job.kind, job'.todo = job.todo, job'.elevated = job.elevated,
           UNCHANGED <<pending, done>>
    PROVE  SafeInv'
  BY DEF SafeInv, Idle

LEMMA SafeEnd ==
    ASSUME job' = NoJob, done'.kind \in Putting /\ done'.elevated => NoneOurs(pending')
    PROVE  SafeInv'
  <1>1. job'.kind = "none"
    BY DEF NoJob
  <1> QED BY <1>1 DEF SafeInv, Putting

LEMMA SafeRollback == Rollback => SafeInv'
  <1>1. NothingDone.kind \notin Putting
    BY DEF NothingDone, Putting
  <1> QED BY <1>1, SafeEnd DEF Rollback

LEMMA SafeJobStep ==
    ASSUME Inv, PairsInv, SafeInv, JobStep
    PROVE  SafeInv'
  <1> USE DEF diskVars, userVars, histVars, restVars
  <1>1. ASSUME NEW step, At(step), step \notin Replacing \cup {"pending"},
               \/ pending' = pending /\ \E doomed : Advance(doomed)
               \/ Rollback
        PROVE  SafeInv'
    BY <1>1, SafeAdvance, SafeRollback
  <1>2. ASSUME NEW step \in {"snapshot", "close", "kill", "settings", "visitors", "fonts",
                             "task", "keys", "data", "shutdown", "activate", "warmup",
                             "runtime", "register", "unregister"}
        PROVE  step \notin Replacing \cup {"pending"}
    BY DEF Replacing
  <1>3. CASE \/ FindProcessIds \/ CloseProcessesGracefully \/ KillByName \/ CloseSettingsProcess
             \/ CloseProcessesUsingDirectory
    <2>1. PICK step \in {"snapshot", "close", "kill", "settings", "visitors"} :
            At(step) /\ pending' = pending /\ \E doomed : Advance(doomed)
      BY <1>3 DEF FindProcessIds, CloseProcessesGracefully, KillByName, CloseSettingsProcess,
         CloseProcessesUsingDirectory, Proceed
    <2> QED BY <1>1, <1>2, <2>1
  <1>4. CASE \/ RemoveFontFilesAndRegistry \/ RemoveScheduledTask \/ DeleteRegistryTrees
             \/ RemoveUserData \/ ShutdownInputCore \/ ActivateProfile \/ StartRimeWarmup
    <2>1. PICK step \in {"fonts", "task", "keys", "data", "shutdown", "activate", "warmup"} :
            At(step) /\ pending' = pending /\ \E doomed : Advance(doomed)
      BY <1>4 DEF RemoveFontFilesAndRegistry, RemoveScheduledTask, DeleteRegistryTrees,
         RemoveUserData, ShutdownInputCore, ActivateProfile, StartRimeWarmup, Proceed
    <2> QED BY <1>1, <1>2, <2>1
  <1>5. CASE EnsureWindowsAppRuntime \/ RegisterTsf \/ UnregisterTsf
    <2>1. PICK step \in {"runtime", "register", "unregister"} :
            At(step) /\ \/ pending' = pending /\ \E doomed : Advance(doomed)
                        \/ Rollback
      BY <1>5 DEF EnsureWindowsAppRuntime, RegisterTsf, UnregisterTsf, Proceed
    <2> QED BY <1>1, <1>2, <2>1
  <1>6. CASE RemovePendingDeletes
    <2>1. At("pending") /\ Advance(job.doomed)
          /\ pending' = IF job.elevated THEN RemoveStalePendingDeletes(pending) ELSE pending
      BY <1>6 DEF RemovePendingDeletes, Proceed
    <2>2. job.elevated => NoneOurs(pending')
      BY <2>1, OursRemovedOnly DEF PairsInv
    <2> QED BY <2>1, <2>2, SafeAdvance
  <1>7. CASE InstallFiles
    <2>1. At("files") /\ Advance(job.doomed) /\ "files" \in Replacing
      BY <1>7 DEF InstallFiles, Proceed, Replacing
    <2> QED BY <2>1, SafeAdvance
  <1>8. CASE RemoveFiles
    <2>1. /\ At("removal") /\ "removal" \in Replacing
          /\ IF Len(job.todo) = 1
             THEN job' = NoJob /\ done' = [kind |-> job.kind, elevated |-> job.elevated]
             ELSE Goes(job.doomed, disk')
      BY <1>8 DEF RemoveFiles, Replacing
    <2>2. CASE Len(job.todo) # 1
      BY <2>1, <2>2, SafeGoing
    <2>3. CASE Len(job.todo) = 1
      <3>1. /\ job.todo \in Seq(Steps) /\ job.todo # <<>> /\ Head(job.todo) = "removal"
        BY <2>1 DEF At, Inv, JobInv, GoodTodo
      <3>2. Later(job.todo, "removal", "pending") => "pending" \in StepsOf(Tail(job.todo))
        BY <3>1, TailKeeps
      <3>3. StepsOf(Tail(job.todo)) = {}
        BY <2>3, <3>1 DEF StepsOf
      <3>4. job.kind \notin Putting
        BY <2>1, <3>2, <3>3 DEF SafeInv, Looks
      <3> QED BY <2>1, <2>3, <3>4, SafeEnd
    <2> QED BY <2>2, <2>3
  <1>9. CASE FinishJob
    <2>1. /\ job.todo = <<>> /\ job' = NoJob /\ pending' = pending
          /\ done' = [kind |-> job.kind, elevated |-> job.elevated]
      BY <1>9 DEF FinishJob
    <2>2. StepsOf(job.todo) = {}
      BY <2>1 DEF StepsOf
    <2>3. job.kind \in Putting /\ job.elevated => NoneOurs(pending)
      BY <2>2 DEF SafeInv
    <2> QED BY <2>1, <2>3, SafeEnd
  <1> QED BY <1>3, <1>4, <1>5, <1>6, <1>7, <1>8, <1>9 DEF JobStep

LEMMA SafeStart ==
    ASSUME NEW kind \in Kinds, NEW version, NEW elevated, StartJob(kind, version, elevated)
    PROVE  SafeInv'
  <1>1. job'.kind = kind /\ job'.todo = Script(kind) /\ done' = NothingDone
    BY DEF StartJob
  <1>2. done'.kind \notin Putting
    BY <1>1 DEF NothingDone, Putting
  <1>3. kind \in Putting => Looks(job'.todo) /\ "pending" \in StepsOf(job'.todo)
    BY <1>1, ScriptsLook DEF Putting
  <1> QED BY <1>1, <1>2, <1>3 DEF SafeInv

LEMMA SafeOthers ==
    ASSUME Inv, SafeInv, Environment \/ UpdaterStep
    PROVE  SafeInv'
  <1> USE DEF diskVars, userVars, histVars, restVars
  <1>1. ASSUME NEW p, Starts(p)
        PROVE  job'.kind = job.kind /\ job'.todo = job.todo /\ job'.elevated = job.elevated
    BY <1>1 DEF Starts, Inv, TypeOK, Jobs
  <1>2. ASSUME NEW a \in Apps, LoadService(a) \/ ServiceActs(a)
        PROVE  SafeInv'
    <2>1. (Starts(a) \/ Starts("core") \/ UNCHANGED job) /\ UNCHANGED <<pending, done>>
      BY <1>2 DEF LoadService, ServiceActs
    <2> QED BY <1>1, <2>1, SafeStays
  <1>3. ASSUME NEW w \in Workers, WorkerActs(w)
        PROVE  SafeInv'
    BY <1>3, SafeStays DEF WorkerActs
  <1>4. ASSUME NEW p \in Processes, ProcessEnds(p)
        PROVE  SafeInv'
    BY <1>4, SafeStays DEF ProcessEnds
  <1>5. CASE StartSettings
    <2>1. Starts("settings") /\ UNCHANGED <<pending, done>>
      BY <1>5 DEF StartSettings
    <2> QED BY <1>1, <2>1, SafeStays
  <1>6. CASE UserStartsJob
    <2>1. PICK kind \in Kinds, version \in Versions \cup {None}, elevated \in BOOLEAN :
            StartJob(kind, version, elevated)
      BY <1>6 DEF UserStartsJob
    <2> QED BY <2>1, SafeStart
  <1>7. CASE Reboot
    <2>1. pending' = <<>> /\ UNCHANGED <<job, done>> /\ Idle
      BY <1>7 DEF Reboot
    <2> QED BY <2>1, NothingPending DEF SafeInv, Idle, Putting
  <1>8. CASE LaunchInstaller
    <2>1. PICK kind \in Kinds : StartJob(kind, updater.tag, TRUE)
      BY <1>8 DEF LaunchInstaller, Kinds
    <2> QED BY <2>1, SafeStart
  <1>9. CASE UpdateApp \/ UpdaterGivesUp
    BY <1>9, SafeStays DEF UpdateApp, UpdaterGivesUp, Updated
  <1> QED BY <1>2, <1>3, <1>4, <1>5, <1>6, <1>7, <1>8, <1>9 DEF Environment, UpdaterStep

LEMMA SafeInvariance == Spec => []SafeInv
  <1>1. Init => SafeInv
    <2>1. NoJob.kind \notin Putting /\ NothingDone.kind \notin Putting
      BY DEF NoJob, NothingDone, Putting
    <2> QED BY <2>1 DEF Init, SafeInv
  <1>2. Inv /\ PairsInv /\ SafeInv /\ [Next]_vars => SafeInv'
    <2> SUFFICES ASSUME Inv, PairsInv, SafeInv, [Next]_vars PROVE SafeInv'
      OBVIOUS
    <2>1. CASE UNCHANGED vars
      BY <2>1, SafeStays DEF vars
    <2> QED BY <2>1, SafeJobStep, SafeOthers DEF Next
  <1> QED BY <1>1, <1>2, Invariance, PairsInvariance, PTL DEF Spec

(* What an elevated installation or upgrade put in place is still there    *)
(* after the next boot, whatever an older version left pending and however *)
(* many of the files were in use.                                          *)
THEOREM SurvivesRebootCorrect == Spec => []SurvivesReboot
  <1>1. SafeInv => SurvivesReboot
    <2> SUFFICES ASSUME SafeInv, Idle, done.kind \in Putting, done.elevated,
                        NEW f \in Files, disk[f] = product
                 PROVE  AfterBoot(f) = product
      BY DEF SurvivesReboot, Putting
    <2>1. NoneOurs(pending)
      BY DEF SafeInv
    <2>2. f \in Ours
      BY DEF Ours
    <2>3. {n \in DOMAIN Pairs(pending) : f \in {Pairs(pending)[n][1], Pairs(pending)[n][2]}} = {}
      BY <2>1, <2>2 DEF NoneOurs, IsOurs, Named
    <2> QED BY <2>3 DEF AfterBoot
  <1> QED BY <1>1, SafeInvariance, PTL
=============================================================================
