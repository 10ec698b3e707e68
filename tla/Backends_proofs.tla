-------------------------- MODULE Backends_proofs --------------------------
(***************************************************************************)
(* A module keeps its backends in step with what it passes, and its        *)
(* verdicts and infeasible subsets right for what it has received, for any *)
(* strategy, any number of backends and any set of conflicts.              *)
(***************************************************************************)
EXTENDS Backends, SequenceTheorems, TLAPS

Distinct(s) == \A i, j \in DOMAIN s : s[i] = s[j] => i = j

-----------------------------------------------------------------------------
(* Lists.                                                                  *)

LEMMA SeqWithoutFacts ==
  ASSUME NEW S, NEW s \in Seq(S), Distinct(s), NEW p \in DOMAIN s
  PROVE  /\ Position(s, s[p]) = p
         /\ SeqWithout(s, s[p]) \in Seq(S)
         /\ Len(SeqWithout(s, s[p])) = Len(s) - 1
         /\ \A i \in 1 .. Len(s) - 1 :
              SeqWithout(s, s[p])[i] = IF i < p THEN s[i] ELSE s[i + 1]
         /\ Elements(SeqWithout(s, s[p])) = Elements(s) \ {s[p]}
         /\ Distinct(SeqWithout(s, s[p]))
  <1> DEFINE t == [i \in 1 .. Len(s) - 1 |-> IF i < p THEN s[i] ELSE s[i + 1]]
  <1>1. Len(s) \in Nat /\ DOMAIN s = 1 .. Len(s) /\ p \in 1 .. Len(s)
    OBVIOUS
  <1>2. Position(s, s[p]) = p
    BY DEF Position, Distinct
  <1>3. SeqWithout(s, s[p]) = t
    BY <1>2 DEF SeqWithout, Elements
  <1>4. \A i \in 1 .. Len(s) - 1 : (IF i < p THEN s[i] ELSE s[i + 1]) \in S
    BY <1>1
  <1>5. t \in [1 .. Len(s) - 1 -> S]
    BY <1>4
  <1>6. Len(s) - 1 \in Nat
    BY <1>1
  <1>7. t \in Seq(S) /\ Len(t) = Len(s) - 1 /\ DOMAIN t = 1 .. Len(s) - 1
    BY <1>5, <1>6
  <1>8. Distinct(t)
    <2> SUFFICES ASSUME NEW i \in 1 .. Len(s) - 1, NEW j \in 1 .. Len(s) - 1, t[i] = t[j]
                 PROVE  i = j
      BY <1>7 DEF Distinct
    <2>1. PICK k \in 1 .. Len(s) : t[i] = s[k] /\ k = IF i < p THEN i ELSE i + 1
      BY <1>1
    <2>2. PICK l \in 1 .. Len(s) : t[j] = s[l] /\ l = IF j < p THEN j ELSE j + 1
      BY <1>1
    <2>3. k = l
      BY <1>1, <2>1, <2>2 DEF Distinct
    <2> QED BY <1>1, <2>1, <2>2, <2>3
  <1>9. Elements(t) = Elements(s) \ {s[p]}
    <2>1. ASSUME NEW i \in 1 .. Len(s) - 1 PROVE t[i] \in Elements(s) \ {s[p]}
      <3>1. PICK k \in 1 .. Len(s) : t[i] = s[k] /\ k # p
        BY <1>1
      <3> QED BY <1>1, <3>1 DEF Distinct, Elements
    <2>2. ASSUME NEW k \in 1 .. Len(s), k # p PROVE s[k] \in Elements(t)
      <3>1. CASE k < p
        <4>1. k \in 1 .. Len(s) - 1 /\ t[k] = s[k]
          BY <1>1, <3>1
        <4> QED BY <1>7, <4>1 DEF Elements
      <3>2. CASE k > p
        <4>1. k - 1 \in 1 .. Len(s) - 1 /\ t[k - 1] = s[k]
          BY <1>1, <3>2
        <4> QED BY <1>7, <4>1 DEF Elements
      <3> QED BY <1>1, <2>2, <3>1, <3>2
    <2>3. Elements(t) \subseteq Elements(s) \ {s[p]}
      BY <1>7, <2>1 DEF Elements
    <2>4. Elements(s) \ {s[p]} \subseteq Elements(t)
      BY <1>1, <2>2 DEF Elements
    <2> QED BY <2>3, <2>4
  <1>10. \A i \in 1 .. Len(s) - 1 : t[i] = IF i < p THEN s[i] ELSE s[i + 1]
    OBVIOUS
  <1> HIDE DEF t
  <1> QED BY <1>2, <1>3, <1>7, <1>8, <1>9, <1>10

-----------------------------------------------------------------------------
(* What a backend may be after add, remove and check.                      *)

(* The backend's infeasible subsets and its UNSAT are justified.           *)
Sound(r) == /\ \A S \in r.infeasible : S \subseteq r.told /\ Infeasible(S)
            /\ r.state = "UNSAT" => r.infeasible # {}

LEMMA InfeasibleGrows ==
  ASSUME NEW F, NEW G, F \subseteq G, Infeasible(F)
  PROVE  Infeasible(G)
  BY DEF Infeasible

LEMMA SoundUnsat ==
  ASSUME NEW r, Sound(r), r.infeasible # {}
  PROVE  Infeasible(r.told)
  BY InfeasibleGrows DEF Sound

LEMMA InformedFacts ==
  ASSUME NEW r \in BackendState, NEW C \in SUBSET Formula
  PROVE  /\ Informed(r, C) \in BackendState
         /\ Informed(r, C).told = r.told
         /\ Informed(r, C).informed = r.informed \cup C
         /\ Sound(r) => Sound(Informed(r, C))
  BY DEF Informed, BackendState, Sound

LEMMA AddedFacts ==
  ASSUME NEW r \in BackendState, NEW new \in Seq(Formula), NEW s \in Added(r, new)
  PROVE  /\ s \in BackendState
         /\ s.told = r.told \cup Elements(new)
         /\ s.informed = r.informed
         /\ Sound(r) => Sound(s)
  <1> DEFINE grown == [r EXCEPT !.told = @ \cup Elements(new),
                                !.unchecked = IF @ = End /\ new # <<>> THEN new[1] ELSE @]
  <1>1. Elements(new) \subseteq Formula
    BY DEF Elements
  <1>2. new # <<>> => new[1] \in Formula
    OBVIOUS
  <1>3. /\ grown \in BackendState
        /\ grown.told = r.told \cup Elements(new)
        /\ grown.informed = r.informed
        /\ grown.infeasible = r.infeasible
        /\ grown.state = r.state
    BY <1>1, <1>2 DEF BackendState
  <1>4. CASE s = grown
    BY <1>3, <1>4 DEF Sound
  <1>5. ASSUME NEW S \in SUBSET grown.told, Infeasible(S),
               s = [grown EXCEPT !.infeasible = @ \cup {S}, !.state = "UNSAT"]
        PROVE  /\ s \in BackendState
               /\ s.told = grown.told
               /\ s.informed = grown.informed
               /\ Sound(grown) => Sound(s)
    <2> HIDE DEF grown
    <2>1. S \in SUBSET Formula /\ "UNSAT" \in Answer
      BY <1>3 DEF BackendState, Answer
    <2>2. /\ s.told = grown.told
          /\ s.informed = grown.informed
          /\ s.infeasible = grown.infeasible \cup {S}
          /\ s \in BackendState
      BY <1>3, <1>5, <2>1 DEF BackendState
    <2> QED BY <1>5, <2>2 DEF Sound
  <1>6. Sound(r) => Sound(grown)
    BY <1>3 DEF Sound
  <1>7. \/ s = grown
        \/ \E S \in SUBSET grown.told :
             Infeasible(S) /\ s = [grown EXCEPT !.infeasible = @ \cup {S}, !.state = "UNSAT"]
    BY DEF Added
  <1> HIDE DEF grown
  <1> QED BY <1>3, <1>4, <1>5, <1>6, <1>7

LEMMA WithoutFacts ==
  ASSUME NEW r \in BackendState, NEW f \in Formula, NEW next \in Formula \cup {End, Dangling}
  PROVE  /\ Without(r, f, next) \in BackendState
         /\ Without(r, f, next).told = r.told \ {f}
         /\ Without(r, f, next).informed = r.informed
         /\ Sound(r) => Sound(Without(r, f, next))
  <1> DEFINE s == Without(r, f, next)
  <1>1. WithoutFormula(r.infeasible, f) \in SUBSET SUBSET Formula
    BY DEF WithoutFormula, BackendState
  <1>2. StateAfterRemove(WithoutFormula(r.infeasible, f), r.state) \in Answer
    BY DEF StateAfterRemove, BackendState, Answer
  <1>3. /\ s \in BackendState
        /\ s.told = r.told \ {f}
        /\ s.informed = r.informed
        /\ s.infeasible = WithoutFormula(r.infeasible, f)
        /\ s.state = StateAfterRemove(WithoutFormula(r.infeasible, f), r.state)
    BY <1>1, <1>2 DEF Without, BackendState
  <1>4. Sound(r) => Sound(s)
    <2> HIDE DEF s
    <2> QED BY <1>3 DEF Sound, WithoutFormula, StateAfterRemove
  <1> QED BY <1>3, <1>4

LEMMA CheckedFacts ==
  ASSUME NEW r \in BackendState, Sound(r), NEW aborted \in BOOLEAN,
         NEW s \in Checked(r, aborted)
  PROVE  /\ s \in BackendState
         /\ s.told = r.told
         /\ s.informed = r.informed
         /\ Sound(s)
         /\ s.state = "SAT" => ~Infeasible(r.told) /\ s.satisfied = r.told
         /\ s.state = "ABORTED" => aborted
  <1> DEFINE done == [r EXCEPT !.unchecked = End]
  <1>1. /\ done \in BackendState
        /\ done.told = r.told /\ done.informed = r.informed
        /\ done.infeasible = r.infeasible
    BY DEF BackendState
  <1>2. {"SAT", "UNSAT", "UNKNOWN", "ABORTED"} = Answer
    BY DEF Answer
  <1>3. \/ r.infeasible # {} /\ s = [done EXCEPT !.state = "UNSAT"]
        \/ r.infeasible = {} /\ s = [done EXCEPT !.state = "UNKNOWN"]
        \/ r.infeasible = {} /\ aborted /\ s = [done EXCEPT !.state = "ABORTED"]
        \/ r.infeasible = {} /\ ~Infeasible(r.told)
             /\ s = [done EXCEPT !.state = "SAT", !.satisfied = r.told]
        \/ r.infeasible = {} /\ \E S \in SUBSET r.told :
             Infeasible(S) /\ s = [done EXCEPT !.state = "UNSAT", !.infeasible = {S}]
    BY DEF Checked
  <1> HIDE DEF done
  <1>4. CASE r.infeasible # {} /\ s = [done EXCEPT !.state = "UNSAT"]
    BY <1>1, <1>2, <1>4 DEF BackendState, Sound
  <1>5. CASE r.infeasible = {} /\ s = [done EXCEPT !.state = "UNKNOWN"]
    BY <1>1, <1>2, <1>5 DEF BackendState, Sound
  <1>6. CASE r.infeasible = {} /\ aborted /\ s = [done EXCEPT !.state = "ABORTED"]
    BY <1>1, <1>2, <1>6 DEF BackendState, Sound
  <1>7. CASE r.infeasible = {} /\ ~Infeasible(r.told)
             /\ s = [done EXCEPT !.state = "SAT", !.satisfied = r.told]
    BY <1>1, <1>2, <1>7 DEF BackendState, Sound
  <1>8. CASE r.infeasible = {} /\ \E S \in SUBSET r.told :
             Infeasible(S) /\ s = [done EXCEPT !.state = "UNSAT", !.infeasible = {S}]
    <2>1. PICK S \in SUBSET r.told :
             Infeasible(S) /\ s = [done EXCEPT !.state = "UNSAT", !.infeasible = {S}]
      BY <1>8
    <2>2. S \in SUBSET Formula
      BY DEF BackendState
    <2>3. /\ s \in BackendState
          /\ s.told = r.told /\ s.informed = r.informed
          /\ s.infeasible = {S} /\ s.state = "UNSAT"
      BY <1>1, <1>2, <2>1, <2>2 DEF BackendState
    <2>4. Sound(s)
      BY <2>1, <2>3 DEF Sound
    <2> QED BY <2>3, <2>4
  <1> QED BY <1>3, <1>4, <1>5, <1>6, <1>7, <1>8

-----------------------------------------------------------------------------
(* The inductive invariant.                                                *)

Received == Elements(mpReceivedFormula)

(* A formula received is still to be announced, or every backend, created  *)
(* or not, has been or will be informed of it.                             *)
Known(f) == f \in mInformedConstraints /\ \A b \in mAllBackends : f \in backend[b].informed

Announced ==
    /\ \A f \in Received : f \in mConstraintsToInform \/ Known(f)
    /\ \A i \in 1 .. mFirstSubformulaToPass - 1 : Known(mpPassedFormula[i])

BackendsSound == \A b \in mAllBackends : Sound(backend[b])

OwnSubsets == \A S \in mInfeasibleSubsets : S \subseteq Received /\ Infeasible(S)

OwnUnsat == mSolverState = "UNSAT" => Infeasible(Received)

(* During a check everything received has been passed, and when the        *)
(* backends run they have been told all of it.                             *)
CheckWellFormed ==
    /\ pc # "idle" => /\ Len(mpPassedFormula) = Len(mpReceivedFormula)
                      /\ mInfeasibleSubsets = {}
    /\ pc # "run" => toRun = {}
    /\ pc = "run" => mFirstSubformulaToPass = Len(mpPassedFormula) + 1

IInv == /\ TypeOK /\ PassedIsPrefix /\ BackendsToldPassed /\ Announced /\ BackendsSound
        /\ OwnSubsets /\ OwnUnsat /\ CheckWellFormed /\ AnswerSound

LEMMA IInvImplies == IInv => /\ InformedBeforeTold
                             /\ SubsetsCurrent
                             /\ UnsatStaysRight
  <1> SUFFICES ASSUME IInv PROVE InformedBeforeTold /\ SubsetsCurrent /\ UnsatStaysRight
    OBVIOUS
  <1>1. InformedBeforeTold
    BY DEF IInv, Announced, Known, BackendsToldPassed, InformedBeforeTold
  <1>2. SubsetsCurrent
    BY DEF IInv, BackendsSound, Sound, OwnSubsets, SubsetsCurrent, Received
  <1>3. UnsatStaysRight
    <2>1. ASSUME NEW b \in mAllBackends, backend[b].state = "UNSAT"
          PROVE  Infeasible(backend[b].told)
      BY <2>1, SoundUnsat DEF IInv, BackendsSound, Sound
    <2> QED BY <2>1 DEF IInv, OwnUnsat, UnsatStaysRight, Received
  <1> QED BY <1>1, <1>2, <1>3

LEMMA InitIInv == Init => IInv
  <1> SUFFICES ASSUME Init PROVE IInv
    OBVIOUS
  <1>1. NewBackend \in BackendState
    BY DEF NewBackend, BackendState, Answer
  <1>2. TypeOK
    <2>1. mBackendsFoundAnswer \in BOOLEAN
      BY DEF Init
    <2>2. /\ mpReceivedFormula = <<>> /\ mpPassedFormula = <<>> /\ mFirstSubformulaToPass = 1
          /\ mConstraintsToInform \subseteq Formula /\ mInformedConstraints = {}
          /\ informed \subseteq Formula
          /\ mInfeasibleSubsets = {} /\ mSolverState = "UNKNOWN"
          /\ mUsedBackends = {} /\ mAllBackends = {}
          /\ backend = [b \in Backend |-> NewBackend]
          /\ pc = "idle" /\ result = "UNKNOWN" /\ toRun = {}
      BY DEF Init
    <2> QED BY <1>1, <2>1, <2>2, BackendsAssumption DEF TypeOK, Answer
  <1>3. Received = {}
    BY DEF Init, Received, Elements
  <1> QED BY <1>2, <1>3 DEF Init, IInv, PassedIsPrefix, BackendsToldPassed, Announced, BackendsSound,
                      OwnSubsets, OwnUnsat, CheckWellFormed, AnswerSound, Received, Elements

(* What was told and what is passed, as sets.                              *)
LEMMA PassedFacts ==
  ASSUME TypeOK, PassedIsPrefix
  PROVE  /\ Len(mpPassedFormula) \in Nat /\ Len(mpReceivedFormula) \in Nat
         /\ DOMAIN mpPassedFormula = 1 .. Len(mpPassedFormula)
         /\ DOMAIN mpReceivedFormula = 1 .. Len(mpReceivedFormula)
         /\ mFirstSubformulaToPass \in Nat
         /\ mFirstSubformulaToPass - 1 \in 0 .. Len(mpPassedFormula)
         /\ Distinct(mpReceivedFormula) /\ Distinct(mpPassedFormula)
         /\ Received \subseteq Formula
         /\ Elements(mpPassedFormula) \subseteq Received
         /\ \A i \in 1 .. mFirstSubformulaToPass - 1 : mpPassedFormula[i] \in Received
         /\ Len(mpPassedFormula) = Len(mpReceivedFormula) => mpPassedFormula = mpReceivedFormula
  <1>1. /\ Len(mpPassedFormula) \in Nat /\ Len(mpReceivedFormula) \in Nat
        /\ DOMAIN mpPassedFormula = 1 .. Len(mpPassedFormula)
        /\ DOMAIN mpReceivedFormula = 1 .. Len(mpReceivedFormula)
        /\ mFirstSubformulaToPass \in Nat
        /\ mFirstSubformulaToPass - 1 \in 0 .. Len(mpPassedFormula)
    BY DEF TypeOK
  <1>2. DOMAIN mpPassedFormula \subseteq DOMAIN mpReceivedFormula
    BY <1>1 DEF PassedIsPrefix
  <1>3. Distinct(mpReceivedFormula) /\ Distinct(mpPassedFormula)
    BY <1>2 DEF PassedIsPrefix, Distinct
  <1>4. Received \subseteq Formula
    BY DEF TypeOK, Received, Elements
  <1>5. Elements(mpPassedFormula) \subseteq Received
    BY <1>2 DEF PassedIsPrefix, Received, Elements
  <1>6. Len(mpPassedFormula) = Len(mpReceivedFormula) => mpPassedFormula = mpReceivedFormula
    BY <1>1 DEF PassedIsPrefix, TypeOK
  <1>7. \A i \in 1 .. mFirstSubformulaToPass - 1 : mpPassedFormula[i] \in Received
    <2>1. \A i \in 1 .. mFirstSubformulaToPass - 1 : i \in DOMAIN mpPassedFormula
      BY <1>1
    <2> QED BY <1>5, <2>1 DEF Elements
  <1> QED BY <1>1, <1>3, <1>4, <1>5, <1>6, <1>7

-----------------------------------------------------------------------------
(* One lemma per action: it preserves the invariant.                       *)

Told == {mpPassedFormula[i] : i \in 1 .. mFirstSubformulaToPass - 1}

LEMMA InformStep ==
  ASSUME IInv, NEW f \in Formula, Inform(f)
  PROVE  IInv'
  <1> USE DEF IInv
  <1>1. /\ UNCHANGED <<formulaVars, mInformedConstraints, answerVars, backendVars, checkVars>>
        /\ mConstraintsToInform' = mConstraintsToInform \cup {f}
        /\ informed' = informed \cup {f}
    BY DEF Inform
  <1>2. TypeOK'
    BY <1>1 DEF TypeOK, formulaVars, answerVars, backendVars, checkVars
  <1>3. \A g : Known(g)' <=> Known(g)
    BY <1>1 DEF Known, backendVars
  <1>4. Announced'
    BY <1>1, <1>3 DEF Announced, Received, formulaVars
  <1>5. PassedIsPrefix' /\ BackendsToldPassed' /\ BackendsSound'
    BY <1>1 DEF PassedIsPrefix, BackendsToldPassed, BackendsSound, Sound, formulaVars, backendVars
  <1>6. OwnSubsets' /\ OwnUnsat' /\ CheckWellFormed' /\ AnswerSound'
    BY <1>1 DEF OwnSubsets, OwnUnsat, CheckWellFormed, AnswerSound, Received, formulaVars,
                answerVars, checkVars
  <1> QED BY <1>2, <1>4, <1>5, <1>6

LEMMA AddStep ==
  ASSUME IInv, NEW f \in Formula, Add(f)
  PROVE  IInv'
  <1> USE DEF IInv
  <1>1. /\ Len(mpReceivedFormula) \in Nat
        /\ DOMAIN mpReceivedFormula = 1 .. Len(mpReceivedFormula)
    BY PassedFacts
  <1>2. /\ mpReceivedFormula' \in Seq(Formula)
        /\ Received' = Received \cup {f}
        /\ PassedIsPrefix'
    <2>1. CASE f \in Elements(mpReceivedFormula)
      BY <2>1 DEF Add, TypeOK, Received, PassedIsPrefix, Elements
    <2>2. CASE f \notin Elements(mpReceivedFormula)
      <3>1. mpReceivedFormula' = Append(mpReceivedFormula, f)
        BY <2>2 DEF Add
      <3>2. /\ mpReceivedFormula' \in Seq(Formula)
            /\ Len(mpReceivedFormula') = Len(mpReceivedFormula) + 1
            /\ DOMAIN mpReceivedFormula' = 1 .. Len(mpReceivedFormula) + 1
            /\ \A i \in 1 .. Len(mpReceivedFormula) : mpReceivedFormula'[i] = mpReceivedFormula[i]
            /\ mpReceivedFormula'[Len(mpReceivedFormula) + 1] = f
        BY <3>1 DEF TypeOK
      <3>3. Received' = Received \cup {f}
        BY <1>1, <3>2 DEF Received, Elements
      <3>4. \A i \in 1 .. Len(mpReceivedFormula) : mpReceivedFormula[i] # f
        BY <1>1, <2>2 DEF Elements
      <3>5. ASSUME NEW i \in DOMAIN mpReceivedFormula', NEW j \in DOMAIN mpReceivedFormula',
                   mpReceivedFormula'[i] = mpReceivedFormula'[j]
            PROVE  i = j
        BY <1>1, <3>2, <3>4, <3>5 DEF PassedIsPrefix
      <3>6. mpPassedFormula' = mpPassedFormula
        BY DEF Add
      <3>7. PassedIsPrefix'
        BY <1>1, <3>2, <3>5, <3>6, PassedFacts DEF PassedIsPrefix
      <3> QED BY <3>2, <3>3, <3>7
    <2> QED BY <2>1, <2>2
  <1>3. TypeOK'
    BY <1>2 DEF TypeOK, Add, answerVars, backendVars, checkVars
  <1>4. BackendsToldPassed'
    BY DEF BackendsToldPassed, Add, backendVars
  <1>5. Announced'
    <2>1. \A x : Known(x)' <=> Known(x)
      BY DEF Known, Add, backendVars
    <2> QED BY <1>2, <2>1 DEF Announced, Add
  <1>6. BackendsSound'
    BY DEF BackendsSound, Add, backendVars, Sound
  <1>7. OwnSubsets' /\ OwnUnsat'
    BY <1>2, InfeasibleGrows DEF OwnSubsets, OwnUnsat, Add, answerVars
  <1>8. CheckWellFormed' /\ AnswerSound'
    BY DEF CheckWellFormed, AnswerSound, Add, checkVars
  <1> QED BY <1>2, <1>3, <1>4, <1>5, <1>6, <1>7, <1>8, SMTT(30)

(* Removing f from both lists takes f, and nothing else, from what was     *)
(* told.                                                                   *)
LEMMA RemoveListFacts ==
  ASSUME IInv, NEW f \in Formula, Remove(f)
  PROVE  /\ mpReceivedFormula' \in Seq(Formula)
         /\ mpPassedFormula' \in Seq(Formula)
         /\ Received' = Received \ {f}
         /\ PassedIsPrefix'
         /\ mFirstSubformulaToPass' \in 1 .. Len(mpPassedFormula') + 1
         /\ Told' = Told \ {f}
         /\ f \in Elements(mpPassedFormula) /\ f \notin ToPass => NodeAfter(f) \in Formula \cup {End}
         /\ f \in ToPass => f \notin Told
         /\ f \notin Elements(mpPassedFormula) => f \notin Told
  <1> USE DEF IInv
  <1> DEFINE n == Len(mpPassedFormula)
             m == Len(mpReceivedFormula)
  <1>1. /\ n \in Nat /\ m \in Nat /\ n <= m
        /\ DOMAIN mpPassedFormula = 1 .. n /\ DOMAIN mpReceivedFormula = 1 .. m
        /\ mFirstSubformulaToPass \in 1 .. n + 1
        /\ Distinct(mpReceivedFormula) /\ Distinct(mpPassedFormula)
        /\ mpReceivedFormula \in Seq(Formula) /\ mpPassedFormula \in Seq(Formula)
        /\ \A i \in 1 .. n : mpPassedFormula[i] = mpReceivedFormula[i]
    BY PassedFacts DEF PassedIsPrefix, TypeOK
  <1>2. PICK p \in 1 .. m : mpReceivedFormula[p] = f
    BY <1>1 DEF Remove, Elements
  <1>3. /\ mpReceivedFormula' \in Seq(Formula)
        /\ Len(mpReceivedFormula') = m - 1
        /\ \A i \in 1 .. m - 1 : mpReceivedFormula'[i]
             = IF i < p THEN mpReceivedFormula[i] ELSE mpReceivedFormula[i + 1]
        /\ Received' = Received \ {f}
        /\ Distinct(mpReceivedFormula')
    <2> DEFINE rest == SeqWithout(mpReceivedFormula, mpReceivedFormula[p])
    <2>1. /\ rest \in Seq(Formula)
          /\ Len(rest) = m - 1
          /\ \A i \in 1 .. m - 1 : rest[i]
               = IF i < p THEN mpReceivedFormula[i] ELSE mpReceivedFormula[i + 1]
          /\ Elements(rest) = Elements(mpReceivedFormula) \ {mpReceivedFormula[p]}
          /\ Distinct(rest)
      <3>1. p \in DOMAIN mpReceivedFormula
        BY <1>1
      <3>2. mpReceivedFormula \in Seq(Formula) /\ Distinct(mpReceivedFormula)
        BY <1>1
      <3> HIDE DEF IInv
      <3> QED BY <3>1, <3>2, SeqWithoutFacts, SMTT(60)
    <2>2. mpReceivedFormula' = rest
      BY <1>2 DEF Remove
    <2> HIDE DEF rest
    <2> QED BY <1>2, <2>1, <2>2 DEF Received, Elements, Distinct
  <1>4. CASE p > n
    <2>1. f \notin Elements(mpPassedFormula)
      BY <1>1, <1>2, <1>4 DEF Elements, Distinct
    <2>2. mpPassedFormula' = mpPassedFormula
      BY <2>1 DEF Remove, PassedWithout, SeqWithout
    <2>3. mFirstSubformulaToPass' = mFirstSubformulaToPass
      BY <2>1 DEF Remove, FirstAfterErase
    <2>4. PassedIsPrefix'
      BY <1>1, <1>2, <1>3, <1>4, <2>2 DEF PassedIsPrefix, Distinct
    <2>5. f \notin Told /\ Told' = Told
      BY <1>1, <2>1, <2>2, <2>3 DEF Told, Elements
    <2>6. f \notin ToPass
      BY <1>1, <2>1 DEF ToPass, Elements
    <2> QED BY <1>1, <1>3, <2>1, <2>2, <2>3, <2>4, <2>5, <2>6
  <1>5. CASE p <= n
    <2>1. p \in DOMAIN mpPassedFormula /\ mpPassedFormula[p] = f
      BY <1>1, <1>2, <1>5
    <2>2. f \in Elements(mpPassedFormula)
      BY <2>1 DEF Elements
    <2>3. /\ Position(mpPassedFormula, f) = p
          /\ mpPassedFormula' \in Seq(Formula)
          /\ Len(mpPassedFormula') = n - 1
          /\ \A i \in 1 .. n - 1 : mpPassedFormula'[i]
               = IF i < p THEN mpPassedFormula[i] ELSE mpPassedFormula[i + 1]
      <3>1. mpPassedFormula' = SeqWithout(mpPassedFormula, mpPassedFormula[p])
        BY <2>1 DEF Remove, PassedWithout
      <3>2. mpPassedFormula \in Seq(Formula) /\ Distinct(mpPassedFormula)
        BY <1>1
      <3> HIDE DEF IInv
      <3> QED BY <2>1, <3>1, <3>2, SeqWithoutFacts, SMTT(60)
    <2>4. DOMAIN mpPassedFormula' = 1 .. n - 1 /\ DOMAIN mpReceivedFormula' = 1 .. m - 1
      BY <1>1, <1>3, <2>3
    <2>5. PassedIsPrefix'
      <3>1. \A i \in 1 .. n - 1 : mpPassedFormula'[i] = mpReceivedFormula'[i]
        BY <1>1, <1>3, <2>3
      <3>2. Len(mpPassedFormula') <= Len(mpReceivedFormula')
        BY <1>1, <1>3, <2>3
      <3>3. \A i \in DOMAIN mpPassedFormula' : mpPassedFormula'[i] = mpReceivedFormula'[i]
        BY <2>4, <3>1
      <3> QED BY <1>3, <3>2, <3>3 DEF PassedIsPrefix, Distinct
    <2>6. f \in ToPass <=> p >= mFirstSubformulaToPass
      BY <1>1, <2>1 DEF ToPass, Distinct
    <2>7. mFirstSubformulaToPass' = IF p < mFirstSubformulaToPass
                                    THEN mFirstSubformulaToPass - 1 ELSE mFirstSubformulaToPass
      BY <1>1, <2>1, <2>2, <2>6 DEF Remove, FirstAfterErase
    <2>8. mFirstSubformulaToPass' \in 1 .. Len(mpPassedFormula') + 1
      BY <1>1, <2>1, <2>3, <2>7
    <2>9. f \in Told <=> p < mFirstSubformulaToPass
      BY <1>1, <2>1 DEF Told, Distinct
    <2>10. Told' = Told \ {f}
      <3>1. CASE p >= mFirstSubformulaToPass
        <4>1. \A i \in 1 .. mFirstSubformulaToPass - 1 : mpPassedFormula'[i] = mpPassedFormula[i]
          BY <1>1, <2>1, <2>3, <3>1
        <4>2. mFirstSubformulaToPass' = mFirstSubformulaToPass
          BY <1>1, <2>1, <2>7, <3>1
        <4>3. f \notin Told
          BY <1>1, <2>1, <2>9, <3>1
        <4> QED BY <4>1, <4>2, <4>3 DEF Told
      <3>2. CASE p < mFirstSubformulaToPass
        <4>1. mFirstSubformulaToPass' = mFirstSubformulaToPass - 1
          BY <2>7, <3>2
        <4>2. ASSUME NEW i \in 1 .. mFirstSubformulaToPass - 2
              PROVE  mpPassedFormula'[i] \in Told \ {f}
          <5>1. i \in 1 .. n - 1
            BY <1>1
          <5>2. PICK k \in 1 .. mFirstSubformulaToPass - 1 :
                  k # p /\ mpPassedFormula'[i] = mpPassedFormula[k]
            BY <1>1, <2>1, <2>3, <5>1
          <5>3. mpPassedFormula[k] # f
            BY <1>1, <2>1, <5>2 DEF Distinct
          <5> QED BY <5>2, <5>3 DEF Told
        <4>3. ASSUME NEW k \in 1 .. mFirstSubformulaToPass - 1, mpPassedFormula[k] # f
              PROVE  \E i \in 1 .. mFirstSubformulaToPass - 2 :
                       mpPassedFormula[k] = mpPassedFormula'[i]
          <5>1. CASE k < p
            <6>1. k \in 1 .. mFirstSubformulaToPass - 2 /\ k \in 1 .. n - 1
              BY <1>1, <2>1, <3>2, <5>1
            <6> QED BY <2>3, <5>1, <6>1
          <5>2. CASE k > p
            <6>1. /\ k - 1 \in 1 .. mFirstSubformulaToPass - 2 /\ k - 1 \in 1 .. n - 1
                  /\ ~(k - 1 < p) /\ (k - 1) + 1 = k
              BY <1>1, <2>1, <3>2, <5>2
            <6>2. mpPassedFormula'[k - 1] = mpPassedFormula[k]
              BY <2>3, <6>1
            <6> QED BY <6>1, <6>2
          <5> QED BY <1>1, <2>1, <4>3, <5>1, <5>2
        <4>4. mFirstSubformulaToPass' - 1 = mFirstSubformulaToPass - 2
          BY <1>1, <4>1
        <4> QED BY <4>2, <4>3, <4>4 DEF Told
      <3> QED BY <1>1, <2>1, <3>1, <3>2
    <2>11. NodeAfter(f) \in Formula \cup {End}
      <3>1. p # n => mpPassedFormula[p + 1] \in Formula
        BY <1>1, <2>1
      <3> QED BY <2>3, <3>1 DEF NodeAfter
    <2> QED BY <1>1, <1>3, <2>1, <2>2, <2>3, <2>5, <2>6, <2>8, <2>9, <2>10, <2>11
  <1> QED BY <1>1, <1>4, <1>5

LEMMA RemoveStep ==
  ASSUME IInv, NEW f \in Formula, Remove(f)
  PROVE  IInv'
  <1> USE DEF IInv
  <1>1. /\ mpReceivedFormula' \in Seq(Formula)
        /\ mpPassedFormula' \in Seq(Formula)
        /\ Received' = Received \ {f}
        /\ PassedIsPrefix'
        /\ mFirstSubformulaToPass' \in 1 .. Len(mpPassedFormula') + 1
        /\ Told' = Told \ {f}
        /\ f \in Elements(mpPassedFormula) /\ f \notin ToPass => NodeAfter(f) \in Formula \cup {End}
        /\ f \in ToPass => f \notin Told
        /\ f \notin Elements(mpPassedFormula) => f \notin Told
    BY RemoveListFacts
  <1>2. ASSUME NEW b \in Backend
        PROVE  /\ backend'[b] \in BackendState
               /\ b \in mAllBackends => /\ backend'[b].told = Told \ {f}
                                        /\ backend'[b].informed = backend[b].informed
                                        /\ Sound(backend'[b])
    <2>1. backend'[b] = IF b \notin mAllBackends \/ f \notin Elements(mpPassedFormula)
                          THEN backend[b]
                        ELSE IF f \notin ToPass THEN Without(backend[b], f, NodeAfter(f))
                        ELSE [backend[b] EXCEPT !.unchecked = IF @ = f THEN Dangling ELSE @]
      BY DEF Remove, BackendsWithout
    <2>2. /\ backend[b] \in BackendState
          /\ b \in mAllBackends => backend[b].told = Told /\ Sound(backend[b])
      BY DEF TypeOK, BackendsToldPassed, Told, BackendsSound
    <2>3. CASE b \notin mAllBackends \/ f \notin Elements(mpPassedFormula)
      BY <1>1, <2>1, <2>2, <2>3
    <2>4. CASE b \in mAllBackends /\ f \in Elements(mpPassedFormula) /\ f \notin ToPass
      <3>1. backend'[b] = Without(backend[b], f, NodeAfter(f))
        BY <2>1, <2>4
      <3>2. NodeAfter(f) \in Formula \cup {End, Dangling}
        BY <1>1, <2>4
      <3> QED BY <2>2, <2>4, <3>1, <3>2, WithoutFacts
    <2>5. CASE b \in mAllBackends /\ f \in Elements(mpPassedFormula) /\ f \in ToPass
      <3>1. backend'[b] = [backend[b] EXCEPT !.unchecked = IF @ = f THEN Dangling ELSE @]
        BY <2>1, <2>5
      <3>2. /\ backend'[b] \in BackendState
            /\ backend'[b].told = backend[b].told
            /\ backend'[b].informed = backend[b].informed
            /\ backend'[b].infeasible = backend[b].infeasible
            /\ backend'[b].state = backend[b].state
        BY <2>2, <3>1 DEF BackendState
      <3> QED BY <1>1, <2>2, <2>5, <3>2 DEF Sound
    <2> QED BY <2>3, <2>4, <2>5
  <1>3. mAllBackends \subseteq Backend /\ mAllBackends' = mAllBackends
    BY DEF TypeOK, Remove
  <1>4. TypeOK'
    <2>1. backend' \in [Backend -> BackendState]
      BY <1>2 DEF Remove, BackendsWithout
    <2>2. /\ mInfeasibleSubsets' \subseteq SUBSET Formula
          /\ mSolverState' \in Answer
      BY DEF TypeOK, Remove, WithoutFormula, StateAfterRemove, Answer
    <2> QED BY <1>1, <2>1, <2>2 DEF TypeOK, Remove, informVars, checkVars
  <1>5. BackendsToldPassed'
    BY <1>1, <1>2, <1>3 DEF BackendsToldPassed, Told
  <1>6. Announced'
    <2>1. \A x : Known(x)' <=> Known(x)
      BY <1>2, <1>3 DEF Known, Remove, informVars
    <2>2. \A x \in Told : Known(x)
      BY DEF Announced, Told
    <2>3. \A x \in Told' : Known(x)'
      BY <1>1, <2>1, <2>2
    <2>4. \A x \in Received' : x \in mConstraintsToInform' \/ Known(x)'
      BY <1>1, <2>1 DEF Announced, Remove, informVars
    <2> QED BY <2>3, <2>4 DEF Announced, Told
  <1>7. BackendsSound'
    BY <1>2, <1>3 DEF BackendsSound, Sound
  <1>8. OwnSubsets'
    BY <1>1 DEF OwnSubsets, Remove, WithoutFormula
  <1>9. OwnUnsat'
    <2>1. mSolverState' = "UNSAT" => mInfeasibleSubsets' # {}
      BY DEF Remove, StateAfterRemove
    <2> QED BY <1>8, <2>1, InfeasibleGrows DEF OwnUnsat, OwnSubsets
  <1>10. CheckWellFormed' /\ AnswerSound'
    BY DEF CheckWellFormed, AnswerSound, Remove, checkVars
  <1> QED BY <1>1, <1>4, <1>5, <1>6, <1>7, <1>8, <1>9, <1>10

LEMMA DeinformStep ==
  ASSUME IInv, NEW f \in Formula, Deinform(f)
  PROVE  IInv'
  <1> USE DEF IInv
  <1>1. ASSUME NEW b \in Backend
        PROVE  /\ backend'[b] \in BackendState
               /\ backend'[b].told = backend[b].told
               /\ backend[b].informed \ {f} \subseteq backend'[b].informed
               /\ backend'[b].infeasible = backend[b].infeasible
               /\ backend'[b].state = backend[b].state
    <2>1. backend'[b] = IF b \in mAllBackends THEN [backend[b] EXCEPT !.informed = @ \ {f}]
                        ELSE backend[b]
      BY DEF Deinform
    <2>2. backend[b] \in BackendState
      BY DEF TypeOK
    <2> QED BY <2>1, <2>2 DEF BackendState
  <1>2. mAllBackends \subseteq Backend /\ mAllBackends' = mAllBackends
    BY DEF TypeOK, Deinform
  <1>3. /\ mpReceivedFormula' = mpReceivedFormula /\ mpPassedFormula' = mpPassedFormula
        /\ mFirstSubformulaToPass' = mFirstSubformulaToPass
        /\ f \notin Received
    BY DEF Deinform, formulaVars, Received
  <1>4. TypeOK'
    <2>1. backend' \in [Backend -> BackendState]
      BY <1>1 DEF Deinform
    <2> QED BY <1>3, <2>1 DEF TypeOK, Deinform, answerVars, checkVars
  <1>5. PassedIsPrefix' /\ BackendsToldPassed' /\ BackendsSound'
    BY <1>1, <1>2, <1>3 DEF PassedIsPrefix, BackendsToldPassed, BackendsSound, Sound
  <1>6. Announced'
    <2>1. \A x : x # f /\ Known(x) => Known(x)'
      BY <1>1, <1>2, SMTT(30) DEF Known, Deinform
    <2>2. \A i \in 1 .. mFirstSubformulaToPass - 1 : mpPassedFormula[i] \in Received
      BY PassedFacts
    <2> QED BY <1>3, <2>1, <2>2 DEF Announced, Deinform, Received
  <1>7. OwnSubsets' /\ OwnUnsat' /\ CheckWellFormed' /\ AnswerSound'
    BY <1>3 DEF OwnSubsets, OwnUnsat, CheckWellFormed, AnswerSound, Deinform, answerVars,
                checkVars, Received
  <1> QED BY <1>4, <1>5, <1>6, <1>7

(* A backend created late is told and informed of what the others were.    *)
LEMMA WithCreatedFacts ==
  ASSUME IInv, NEW used \in SUBSET Backend, NEW g \in WithCreated(used)
  PROVE  /\ g \in [Backend -> BackendState]
         /\ \A b \in mAllBackends \cup used : g[b].told = Told /\ Sound(g[b])
         /\ \A f : Known(f) => \A b \in mAllBackends \cup used : f \in g[b].informed
  <1> USE DEF IInv
  <1>1. PICK new \in [used \ mAllBackends -> Created] :
          g = [b \in Backend |-> IF b \in DOMAIN new THEN new[b] ELSE backend[b]]
    BY DEF WithCreated
  <1>2. DOMAIN new = used \ mAllBackends
    BY <1>1
  <1>3. NewBackend \in BackendState /\ Sound(NewBackend) /\ NewBackend.told = {}
    BY DEF NewBackend, BackendState, Answer, Sound
  <1>4. ToldAlready \in Seq(Formula) /\ Elements(ToldAlready) = Told
    <2> DEFINE k == mFirstSubformulaToPass - 1
    <2>1. mpPassedFormula \in Seq(Formula) /\ k \in 0 .. Len(mpPassedFormula)
      BY PassedFacts DEF TypeOK
    <2>2. ToldAlready = SubSeq(mpPassedFormula, 1, k)
      BY DEF ToldAlready
    <2>3. Told = {mpPassedFormula[i] : i \in 1 .. k}
      BY DEF Told
    <2> HIDE DEF k, IInv
    <2>4. /\ SubSeq(mpPassedFormula, 1, k) \in Seq(Formula)
          /\ DOMAIN SubSeq(mpPassedFormula, 1, k) = 1 .. k
          /\ \A i \in 1 .. k : SubSeq(mpPassedFormula, 1, k)[i] = mpPassedFormula[i]
      BY <2>1
    <2> QED BY <2>2, <2>3, <2>4 DEF Elements
  <1>5. ASSUME NEW r \in Created
        PROVE  /\ r \in BackendState
               /\ r.told = Told /\ Sound(r)
               /\ r.informed = NewBackend.informed \cup mInformedConstraints
    <2> DEFINE told0 == Informed(NewBackend, mInformedConstraints)
    <2>1. /\ told0 \in BackendState /\ told0.told = {} /\ Sound(told0)
          /\ told0.informed = NewBackend.informed \cup mInformedConstraints
      BY <1>3, InformedFacts DEF TypeOK
    <2>2. r \in Added(told0, ToldAlready)
      BY DEF Created
    <2> HIDE DEF told0, IInv
    <2>3. /\ r \in BackendState
          /\ r.told = told0.told \cup Elements(ToldAlready)
          /\ r.informed = told0.informed
          /\ Sound(told0) => Sound(r)
      BY <1>4, <2>1, <2>2, AddedFacts
    <2> QED BY <1>4, <2>1, <2>3
  <1>6. ASSUME NEW b \in Backend
        PROVE  \/ b \in used \ mAllBackends /\ g[b] \in Created
               \/ b \notin used \ mAllBackends /\ g[b] = backend[b]
    BY <1>1, <1>2
  <1>7. g \in [Backend -> BackendState]
    <2>1. \A b \in Backend : g[b] \in BackendState
      BY <1>5, <1>6 DEF TypeOK
    <2>2. g = [b \in Backend |-> g[b]]
      BY <1>1
    <2> QED BY <2>1, <2>2
  <1>8. ASSUME NEW b \in mAllBackends \cup used PROVE g[b].told = Told /\ Sound(g[b])
    BY <1>5, <1>6 DEF TypeOK, BackendsToldPassed, BackendsSound, Told
  <1>9. ASSUME NEW f, Known(f), NEW b \in mAllBackends \cup used PROVE f \in g[b].informed
    BY <1>5, <1>6, <1>9 DEF TypeOK, Known
  <1> QED BY <1>7, <1>8, <1>9

LEMMA InitBackendsStep ==
  ASSUME IInv, InitBackends
  PROVE  IInv'
  <1> USE DEF IInv
  <1> DEFINE used == UsedFor(mpPassedFormula)
             all == mAllBackends \cup used
  <1>1. used \in SUBSET Backend /\ mAllBackends \subseteq Backend
    BY DEF UsedFor, TypeOK
  <1>2. PICK created \in WithCreated(used) :
          backend' = [b \in Backend |->
             IF b \in all THEN Informed(created[b], mConstraintsToInform) ELSE created[b]]
    BY DEF InitBackends
  <1>3. /\ mUsedBackends' = used /\ mAllBackends' = all
        /\ mInformedConstraints' = mInformedConstraints \cup mConstraintsToInform
        /\ mConstraintsToInform' = {}
        /\ UNCHANGED <<formulaVars, informed, answerVars, checkVars>>
        /\ pc = "idle"
    BY DEF InitBackends
  <1> HIDE DEF used
  <1>4. /\ created \in [Backend -> BackendState]
        /\ \A b \in all : created[b].told = Told /\ Sound(created[b])
        /\ \A f : Known(f) => \A b \in all : f \in created[b].informed
    BY <1>1, WithCreatedFacts
  <1>5. ASSUME NEW b \in Backend
        PROVE  /\ backend'[b] \in BackendState
               /\ b \in all => /\ backend'[b].told = Told
                               /\ Sound(backend'[b])
                               /\ backend'[b].informed = created[b].informed \cup mConstraintsToInform
    <2>1. backend'[b] = IF b \in all THEN Informed(created[b], mConstraintsToInform) ELSE created[b]
      BY <1>2
    <2>2. created[b] \in BackendState /\ mConstraintsToInform \in SUBSET Formula
      BY <1>4 DEF TypeOK
    <2> HIDE DEF all
    <2> QED BY <1>4, <2>1, <2>2, InformedFacts
  <1>6. all \subseteq Backend
    BY <1>1
  <1>7. TypeOK'
    <2>1. backend' \in [Backend -> BackendState]
      BY <1>2, <1>5
    <2>2. toRun' \subseteq mUsedBackends'
      BY <1>3 DEF CheckWellFormed, checkVars
    <2> QED BY <1>3, <1>6, <2>1, <2>2 DEF TypeOK, formulaVars, answerVars, checkVars
  <1>8. PassedIsPrefix'
    BY <1>3 DEF PassedIsPrefix, formulaVars
  <1>9. BackendsToldPassed' /\ BackendsSound'
    BY <1>3, <1>5, <1>6 DEF BackendsToldPassed, BackendsSound, Sound, Told, formulaVars
  <1>10. Announced'
    <2>1. \A f : Known(f) => Known(f)'
      BY <1>3, <1>4, <1>5, <1>6 DEF Known
    <2>2. \A f \in mConstraintsToInform : Known(f)'
      BY <1>3, <1>5, <1>6 DEF Known
    <2> QED BY <1>3, <2>1, <2>2 DEF Announced, Received, formulaVars
  <1>11. OwnSubsets' /\ OwnUnsat' /\ CheckWellFormed' /\ AnswerSound'
    BY <1>3 DEF OwnSubsets, OwnUnsat, CheckWellFormed, AnswerSound, Received, answerVars,
                checkVars, formulaVars
  <1> QED BY <1>7, <1>8, <1>9, <1>10, <1>11

LEMMA CheckAtOnceStep ==
  ASSUME IInv, CheckAtOnce
  PROVE  IInv'
  <1> USE DEF IInv
  <1>1. UNCHANGED <<formulaVars, informVars, mInfeasibleSubsets, backendVars, checkVars>>
    BY DEF CheckAtOnce
  <1>2. mSolverState' \in Answer
    BY DEF CheckAtOnce, Answer
  <1>3. OwnUnsat'
    <2>1. mSolverState' = "UNSAT" => mInfeasibleSubsets # {}
      BY DEF CheckAtOnce
    <2>2. mSolverState' = "UNSAT" => Infeasible(Received)
      BY <2>1, InfeasibleGrows DEF OwnSubsets
    <2> QED BY <1>1, <2>2 DEF OwnUnsat, Received, formulaVars
  <1>4. TypeOK'
    BY <1>1, <1>2 DEF TypeOK, formulaVars, informVars, backendVars, checkVars
  <1>5. \A f : Known(f) => Known(f)'
    BY <1>1 DEF Known, informVars, backendVars
  <1>6. /\ PassedIsPrefix' /\ BackendsToldPassed' /\ BackendsSound'
        /\ OwnSubsets' /\ CheckWellFormed' /\ AnswerSound'
    BY <1>1 DEF formulaVars, backendVars, checkVars, PassedIsPrefix,
                BackendsToldPassed, BackendsSound, Sound, OwnSubsets,
                CheckWellFormed, AnswerSound, Received
  <1>7. Announced'
    BY <1>1, <1>5 DEF Announced, Received, formulaVars, informVars
  <1> QED BY <1>3, <1>4, <1>6, <1>7

(* Copying by position makes what is passed equal to what is received.     *)
LEMMA CopiedFacts ==
  ASSUME TypeOK, PassedIsPrefix
  PROVE  Copied = mpReceivedFormula
  <1>1. /\ mpPassedFormula \in Seq(Formula) /\ mpReceivedFormula \in Seq(Formula)
        /\ Len(mpPassedFormula) <= Len(mpReceivedFormula)
        /\ \A i \in 1 .. Len(mpPassedFormula) : mpPassedFormula[i] = mpReceivedFormula[i]
    BY PassedFacts DEF TypeOK, PassedIsPrefix
  <1> DEFINE rest == SubSeq(mpReceivedFormula, Len(mpPassedFormula) + 1, Len(mpReceivedFormula))
  <1>2. /\ rest \in Seq(Formula)
        /\ Len(rest) = Len(mpReceivedFormula) - Len(mpPassedFormula)
        /\ \A i \in 1 .. Len(rest) : rest[i] = mpReceivedFormula[Len(mpPassedFormula) + i]
    BY <1>1
  <1> HIDE DEF rest
  <1> DEFINE joined == mpPassedFormula \o rest
  <1>3. /\ joined \in Seq(Formula)
        /\ Len(joined) = Len(mpReceivedFormula)
        /\ \A i \in 1 .. Len(mpPassedFormula) : joined[i] = mpPassedFormula[i]
        /\ \A i \in 1 .. Len(rest) : joined[Len(mpPassedFormula) + i] = rest[i]
    BY <1>1, <1>2
  <1> HIDE DEF joined
  <1>4. Len(mpPassedFormula) \in Nat /\ Len(mpReceivedFormula) \in Nat
    BY <1>1
  <1>5. ASSUME NEW i \in 1 .. Len(mpReceivedFormula)
        PROVE  joined[i] = mpReceivedFormula[i]
    <2>1. CASE i <= Len(mpPassedFormula)
      BY <1>1, <1>3, <1>4, <2>1
    <2>2. CASE i > Len(mpPassedFormula)
      <3>1. PICK k \in 1 .. Len(rest) : i = Len(mpPassedFormula) + k
        <4>1. /\ i - Len(mpPassedFormula) \in 1 .. Len(rest)
              /\ i = Len(mpPassedFormula) + (i - Len(mpPassedFormula))
          BY <1>2, <1>4, <2>2
        <4> QED BY <4>1
      <3> QED BY <1>2, <1>3, <3>1
    <2> QED BY <1>4, <2>1, <2>2
  <1>6. joined = mpReceivedFormula
    <2>1. /\ DOMAIN joined = 1 .. Len(mpReceivedFormula)
          /\ DOMAIN mpReceivedFormula = 1 .. Len(mpReceivedFormula)
      BY <1>1, <1>3
    <2>2. joined \in [1 .. Len(mpReceivedFormula) -> Formula]
      BY <1>3
    <2>3. mpReceivedFormula \in [1 .. Len(mpReceivedFormula) -> Formula]
      BY <1>1
    <2> QED BY <1>5, <2>2, <2>3
  <1> QED BY <1>6 DEF Copied, rest, joined

LEMMA CheckBeginStep ==
  ASSUME IInv, CheckBegin
  PROVE  IInv'
  <1> USE DEF IInv
  <1> DEFINE used == UsedFor(Copied)
  <1>1. used \in SUBSET Backend /\ mAllBackends \subseteq Backend
    BY DEF UsedFor, TypeOK
  <1>2. /\ mpPassedFormula' = mpReceivedFormula /\ mpReceivedFormula' = mpReceivedFormula
        /\ mFirstSubformulaToPass' = mFirstSubformulaToPass
        /\ mUsedBackends' = used /\ mAllBackends' = mAllBackends \cup used
        /\ backend' \in WithCreated(used)
        /\ mInfeasibleSubsets = {} /\ result' = "UNKNOWN"
        /\ pc' \in {"found", "update"}
        /\ UNCHANGED <<informVars, answerVars, toRun>>
        /\ pc = "idle"
    BY CopiedFacts DEF CheckBegin
  <1> HIDE DEF used
  <1>3. /\ backend' \in [Backend -> BackendState]
        /\ \A b \in mAllBackends \cup used : backend'[b].told = Told /\ Sound(backend'[b])
        /\ \A f : Known(f) => \A b \in mAllBackends \cup used : f \in backend'[b].informed
    BY <1>1, <1>2, WithCreatedFacts
  <1>4. Told' = Told
    <2>1. \A i \in 1 .. mFirstSubformulaToPass - 1 : mpReceivedFormula[i] = mpPassedFormula[i]
      BY PassedFacts DEF PassedIsPrefix
    <2> QED BY <1>2, <2>1 DEF Told
  <1>5. TypeOK'
    <2>1. mFirstSubformulaToPass \in 1 .. Len(mpReceivedFormula) + 1
      BY PassedFacts DEF PassedIsPrefix, TypeOK
    <2>2. toRun' \subseteq mUsedBackends'
      BY <1>2 DEF CheckWellFormed
    <2>3. mAllBackends' \subseteq Backend /\ mUsedBackends' \subseteq mAllBackends'
      BY <1>1, <1>2
    <2>4. mBackendsFoundAnswer' \in BOOLEAN
      BY DEF CheckBegin, FoundWhileCreated
    <2> QED BY <1>2, <1>3, <2>1, <2>2, <2>3, <2>4 DEF TypeOK, informVars, answerVars, Answer
  <1>6. PassedIsPrefix'
    BY <1>2, PassedFacts DEF PassedIsPrefix
  <1>7. BackendsToldPassed' /\ BackendsSound'
    BY <1>2, <1>3, <1>4 DEF BackendsToldPassed, BackendsSound, Sound, Told
  <1>8. Announced'
    <2>1. \A f : Known(f) => Known(f)'
      BY <1>2, <1>3 DEF Known, informVars
    <2>2. \A f \in Told : Known(f)
      BY DEF Announced, Told
    <2>3. \A f \in Told' : Known(f)'
      BY <1>4, <2>1, <2>2
    <2>4. \A f \in Received' : f \in mConstraintsToInform' \/ Known(f)'
      BY <1>2, <2>1 DEF Announced, Received, informVars
    <2> QED BY <2>3, <2>4 DEF Announced, Told
  <1>9. OwnSubsets' /\ OwnUnsat' /\ CheckWellFormed' /\ AnswerSound'
    BY <1>2 DEF OwnSubsets, OwnUnsat, CheckWellFormed, AnswerSound, Received, answerVars
  <1> QED BY <1>5, <1>6, <1>7, <1>8, <1>9

(* Telling what is to be told completes what every backend was told.       *)
LEMMA UpdatedFacts ==
  ASSUME IInv, NEW g \in Updated
  PROVE  /\ g \in [Backend -> BackendState]
         /\ \A b \in mAllBackends :
              /\ g[b].told = Elements(mpPassedFormula)
              /\ g[b].informed = backend[b].informed \cup mConstraintsToInform
              /\ Sound(g[b])
  <1> USE DEF IInv
  <1>1. /\ ToTell \in Seq(Formula)
        /\ Told \cup Elements(ToTell) = Elements(mpPassedFormula)
    <2> DEFINE k == mFirstSubformulaToPass
               n == Len(mpPassedFormula)
    <2>1. /\ mpPassedFormula \in Seq(Formula) /\ n \in Nat /\ k \in 1 .. n + 1
          /\ DOMAIN mpPassedFormula = 1 .. n
      BY PassedFacts DEF TypeOK
    <2> HIDE DEF IInv, n, k
    <2>2. ToTell = SubSeq(mpPassedFormula, k, n)
      BY DEF ToTell, k, n
    <2>3. /\ SubSeq(mpPassedFormula, k, n) \in Seq(Formula)
          /\ DOMAIN SubSeq(mpPassedFormula, k, n) = 1 .. n - k + 1
          /\ \A i \in 1 .. n - k + 1 :
               SubSeq(mpPassedFormula, k, n)[i] = mpPassedFormula[k + i - 1]
      BY <2>1 DEF n
    <2>4. \A i \in 1 .. n - k + 1 : k + i - 1 \in 1 .. n
      BY <2>1
    <2>5. \A j \in 1 .. n : j \in 1 .. k - 1 \/ \E i \in 1 .. n - k + 1 : j = k + i - 1
      <3> SUFFICES ASSUME NEW j \in 1 .. n, j \notin 1 .. k - 1
                   PROVE  \E i \in 1 .. n - k + 1 : j = k + i - 1
        OBVIOUS
      <3>1. j - k + 1 \in 1 .. n - k + 1 /\ j = k + (j - k + 1) - 1
        BY <2>1
      <3> QED BY <3>1
    <2>6. Told = {mpPassedFormula[i] : i \in 1 .. k - 1} /\ \A i \in 1 .. k - 1 : i \in 1 .. n
      BY <2>1 DEF Told, k
    <2>7. Elements(ToTell) = {mpPassedFormula[k + i - 1] : i \in 1 .. n - k + 1}
      BY <2>2, <2>3 DEF Elements
    <2>8. Elements(mpPassedFormula) = {mpPassedFormula[j] : j \in 1 .. n}
      BY <2>1 DEF Elements
    <2> QED BY <2>2, <2>3, <2>4, <2>5, <2>6, <2>7, <2>8, SMTT(30)
  <1>2. mAllBackends \subseteq Backend
    BY DEF TypeOK
  <1>3. /\ \A b \in mAllBackends :
              g[b] \in Added(Informed(backend[b], mConstraintsToInform), ToTell)
        /\ \A b \in Backend \ mAllBackends : g[b] = backend[b]
        /\ g = [b \in Backend |-> g[b]]
    BY <1>2 DEF Updated, BackendsToUpdate
  <1>4. ASSUME NEW b \in mAllBackends
        PROVE  /\ g[b] \in BackendState
               /\ g[b].told = Elements(mpPassedFormula)
               /\ g[b].informed = backend[b].informed \cup mConstraintsToInform
               /\ Sound(g[b])
    <2> DEFINE r == Informed(backend[b], mConstraintsToInform)
    <2>1. /\ backend[b] \in BackendState /\ mConstraintsToInform \in SUBSET Formula
          /\ backend[b].told = Told /\ Sound(backend[b])
      BY <1>2 DEF TypeOK, BackendsToldPassed, Told, BackendsSound
    <2>2. /\ r \in BackendState /\ r.told = Told /\ Sound(r)
          /\ r.informed = backend[b].informed \cup mConstraintsToInform
      BY <2>1, InformedFacts
    <2>3. g[b] \in Added(r, ToTell)
      BY <1>3
    <2> HIDE DEF r, IInv
    <2>4. /\ g[b] \in BackendState
          /\ g[b].told = r.told \cup Elements(ToTell)
          /\ g[b].informed = r.informed
          /\ Sound(r) => Sound(g[b])
      BY <1>1, <2>2, <2>3, AddedFacts
    <2> QED BY <1>1, <2>2, <2>4
  <1>5. \A b \in Backend : g[b] \in BackendState
    BY <1>3, <1>4 DEF TypeOK
  <1> QED BY <1>3, <1>4, <1>5

LEMMA UpdateStep ==
  ASSUME IInv, Update
  PROVE  IInv'
  <1> USE DEF IInv
  <1>1. /\ UNCHANGED <<mpReceivedFormula, mpPassedFormula, answerVars, mUsedBackends, mAllBackends,
                       mBackendsFoundAnswer>>
        /\ UNCHANGED informed
        /\ pc = "update" /\ pc' \in {"run", "found"}
    BY DEF Update, informVars
  <1>2. /\ mAllBackends \subseteq Backend
        /\ Len(mpPassedFormula) \in Nat
        /\ DOMAIN mpPassedFormula = 1 .. Len(mpPassedFormula)
        /\ mpPassedFormula = mpReceivedFormula
    BY <1>1, PassedFacts DEF TypeOK, CheckWellFormed
  <1>3. PassedIsPrefix' /\ OwnSubsets' /\ OwnUnsat'
    BY <1>1 DEF PassedIsPrefix, OwnSubsets, OwnUnsat, Received, answerVars
  <1>4. CASE ToTell = <<>>
    <2>1. /\ pc' = "run" /\ toRun' = mUsedBackends
          /\ UNCHANGED <<mFirstSubformulaToPass, informVars, backend, result>>
      BY <1>4 DEF Update
    <2>2. mFirstSubformulaToPass = Len(mpPassedFormula) + 1
      <3>1. mFirstSubformulaToPass \in 1 .. Len(mpPassedFormula) + 1
            /\ mpPassedFormula \in Seq(Formula)
        BY DEF TypeOK
      <3>2. CASE mFirstSubformulaToPass <= Len(mpPassedFormula)
        <4>1. Len(ToTell) > 0
          BY <1>2, <3>1, <3>2 DEF ToTell
        <4> QED BY <1>4, <4>1
      <3> QED BY <1>2, <3>1, <3>2
    <2>3. TypeOK'
      BY <1>1, <2>1 DEF TypeOK, informVars, answerVars
    <2>4. BackendsToldPassed' /\ BackendsSound'
      BY <1>1, <2>1 DEF BackendsToldPassed, BackendsSound, Sound
    <2>5. \A f : Known(f) => Known(f)'
      BY <1>1, <2>1 DEF Known, informVars
    <2>6. Announced'
      BY <1>1, <2>1, <2>5 DEF Announced, Received, informVars
    <2>7. CheckWellFormed' /\ AnswerSound'
      BY <1>1, <2>1, <2>2 DEF CheckWellFormed, AnswerSound, answerVars
    <2> QED BY <1>3, <2>3, <2>4, <2>6, <2>7
  <1>5. CASE ToTell # <<>>
    <2>1. /\ backend' \in Updated
          /\ mFirstSubformulaToPass' = Len(mpPassedFormula) + 1
          /\ mInformedConstraints' = mInformedConstraints \cup mConstraintsToInform
          /\ mConstraintsToInform' = {}
          /\ \/ AssertionFailed /\ pc' = "found" /\ result' = "UNSAT" /\ toRun' = {}
             \/ pc' = "run" /\ toRun' = mUsedBackends /\ result' = result
      BY <1>5 DEF Update, InformedAfterUpdate
    <2>2. /\ backend' \in [Backend -> BackendState]
          /\ \A b \in mAllBackends :
               /\ backend'[b].told = Elements(mpPassedFormula)
               /\ backend'[b].informed = backend[b].informed \cup mConstraintsToInform
               /\ Sound(backend'[b])
      BY <2>1, UpdatedFacts
    <2>3. Elements(mpPassedFormula) = Received
      BY <1>2 DEF Received
    <2>4. TypeOK'
      <3>1. mFirstSubformulaToPass' \in 1 .. Len(mpPassedFormula') + 1
        BY <1>1, <1>2, <2>1
      <3>2. result' \in Answer /\ toRun' \subseteq mUsedBackends'
        BY <1>1, <2>1 DEF TypeOK, Answer
      <3>3. mInformedConstraints' \subseteq Formula /\ mConstraintsToInform' \subseteq Formula
        BY <2>1 DEF TypeOK
      <3> QED BY <1>1, <2>2, <3>1, <3>2, <3>3 DEF TypeOK, answerVars
    <2>5. BackendsToldPassed' /\ BackendsSound'
      <3>1. Elements(mpPassedFormula)
              = {mpPassedFormula[i] : i \in 1 .. (Len(mpPassedFormula) + 1) - 1}
        BY <1>2 DEF Elements
      <3> QED BY <1>1, <2>1, <2>2, <3>1 DEF BackendsToldPassed, BackendsSound, Sound
    <2>6. Announced'
      <3>1. \A f : Known(f) \/ f \in mConstraintsToInform => Known(f)'
        <4> SUFFICES ASSUME NEW f, Known(f) \/ f \in mConstraintsToInform PROVE Known(f)'
          OBVIOUS
        <4>1. f \in mInformedConstraints'
          BY <2>1 DEF Known
        <4>2. \A b \in mAllBackends : f \in backend'[b].informed
          BY <2>2 DEF Known
        <4> QED BY <1>1, <4>1, <4>2 DEF Known
      <3>2. \A f \in Received : Known(f)'
        BY <3>1 DEF Announced
      <3>3. \A i \in 1 .. mFirstSubformulaToPass' - 1 : mpPassedFormula[i] \in Received
        BY <1>2, <2>1 DEF Received, Elements
      <3> QED BY <1>1, <3>2, <3>3 DEF Announced, Received
    <2>7. AnswerSound'
      <3>1. ASSUME AssertionFailed PROVE Infeasible(Received)
        <4>1. PICK b \in mAllBackends : backend'[b].infeasible # {}
          BY <3>1 DEF AssertionFailed
        <4>2. Infeasible(backend'[b].told)
          BY <2>2, <4>1, SoundUnsat
        <4> QED BY <2>2, <2>3, <4>2
      <3> QED BY <1>1, <2>1, <3>1 DEF AnswerSound, Received
    <2>8. CheckWellFormed'
      BY <1>1, <2>1 DEF CheckWellFormed, answerVars
    <2> QED BY <1>3, <2>4, <2>5, <2>6, <2>7, <2>8
  <1> QED BY <1>4, <1>5

(* When the backends run, each has been told all that was received.        *)
LEMMA ToldReceived ==
  ASSUME IInv, pc = "run", NEW b \in mAllBackends
  PROVE  backend[b].told = Received
  <1> USE DEF IInv
  <1>1. /\ mpPassedFormula = mpReceivedFormula
        /\ Len(mpPassedFormula) \in Nat
        /\ DOMAIN mpPassedFormula = 1 .. Len(mpPassedFormula)
        /\ mFirstSubformulaToPass = Len(mpPassedFormula) + 1
    BY PassedFacts DEF CheckWellFormed
  <1>2. mFirstSubformulaToPass - 1 = Len(mpPassedFormula)
    BY <1>1
  <1> QED BY <1>1, <1>2 DEF BackendsToldPassed, Received, Elements

(* A step in which backends only check keeps the invariant, if its result  *)
(* is right.                                                               *)
LEMMA RunKeeps ==
  ASSUME IInv, pc = "run",
         UNCHANGED <<formulaVars, informVars, answerVars, mUsedBackends, mAllBackends,
                     mBackendsFoundAnswer>>,
         backend' \in [Backend -> BackendState],
         \A b \in mAllBackends : /\ backend'[b].told = backend[b].told
                                 /\ backend'[b].informed = backend[b].informed
                                 /\ Sound(backend'[b]),
         result' \in Answer,
         result' = "UNSAT" => Infeasible(Received),
         result' = "SAT" => ~Infeasible(Received),
         pc' \in {"run", "found"}, toRun' \subseteq toRun, pc' = "found" => toRun' = {}
  PROVE  IInv'
  <1> USE DEF IInv
  <1>1. TypeOK'
    BY DEF TypeOK, formulaVars, informVars, answerVars
  <1>2. PassedIsPrefix' /\ OwnSubsets' /\ OwnUnsat'
    BY DEF PassedIsPrefix, OwnSubsets, OwnUnsat, Received, formulaVars, answerVars
  <1>3. BackendsToldPassed' /\ BackendsSound'
    BY DEF BackendsToldPassed, BackendsSound, Sound, formulaVars
  <1>4. \A f : Known(f) => Known(f)'
    BY DEF Known, informVars
  <1>5. Announced'
    BY <1>4 DEF Announced, Received, formulaVars, informVars
  <1>6. CheckWellFormed' /\ AnswerSound'
    BY DEF CheckWellFormed, AnswerSound, Received, formulaVars, answerVars
  <1> QED BY <1>1, <1>2, <1>3, <1>5, <1>6

LEMMA RunNextStep ==
  ASSUME IInv, RunNext
  PROVE  IInv'
  <1>1. PICK b \in toRun : \E r \in Checked(backend[b], mBackendsFoundAnswer) :
              /\ backend' = [backend EXCEPT ![b] = r]
              /\ result' = r.state
              /\ toRun' = IF result' = "UNKNOWN" THEN toRun \ {b} ELSE {}
              /\ pc' = IF toRun' = {} THEN "found" ELSE "run"
    BY DEF RunNext
  <1>2. PICK r \in Checked(backend[b], mBackendsFoundAnswer) :
              /\ backend' = [backend EXCEPT ![b] = r]
              /\ result' = r.state
              /\ toRun' = IF result' = "UNKNOWN" THEN toRun \ {b} ELSE {}
              /\ pc' = IF toRun' = {} THEN "found" ELSE "run"
    BY <1>1
  <1>3. /\ b \in mAllBackends /\ b \in Backend
        /\ backend \in [Backend -> BackendState] /\ backend[b] \in BackendState
        /\ Sound(backend[b]) /\ mBackendsFoundAnswer \in BOOLEAN
    BY DEF IInv, TypeOK, BackendsSound
  <1>4. /\ r \in BackendState /\ r.told = backend[b].told /\ r.informed = backend[b].informed
        /\ Sound(r)
        /\ r.state = "SAT" => ~Infeasible(backend[b].told)
    BY <1>3, CheckedFacts
  <1>5. pc = "run" /\ backend[b].told = Received
    BY <1>3, ToldReceived DEF RunNext
  <1>6. backend' \in [Backend -> BackendState]
    BY <1>2, <1>3, <1>4
  <1>7. ASSUME NEW c \in mAllBackends
        PROVE  /\ backend'[c].told = backend[c].told
               /\ backend'[c].informed = backend[c].informed
               /\ Sound(backend'[c])
    <2>1. c \in Backend /\ Sound(backend[c])
      BY DEF IInv, TypeOK, BackendsSound
    <2>2. CASE c = b
      <3>1. backend'[c] = r
        BY <1>2, <1>3, <2>2
      <3> QED BY <1>4, <2>2, <3>1
    <2>3. CASE c # b
      <3>1. backend'[c] = backend[c]
        BY <1>2, <1>3, <2>1, <2>3
      <3> QED BY <2>1, <3>1
    <2> QED BY <2>2, <2>3
  <1>8. result' = "UNSAT" => Infeasible(Received)
    <2>1. r.state = "UNSAT" => Infeasible(r.told)
      BY <1>4, SoundUnsat DEF Sound
    <2> QED BY <1>2, <1>4, <1>5, <2>1
  <1>9. result' = "SAT" => ~Infeasible(Received)
    BY <1>2, <1>4, <1>5
  <1>10. result' \in Answer /\ pc' \in {"run", "found"} /\ toRun' \subseteq toRun
         /\ (pc' = "found" => toRun' = {})
    BY <1>2, <1>4 DEF BackendState
  <1>11. UNCHANGED <<formulaVars, informVars, answerVars, mUsedBackends, mAllBackends,
                     mBackendsFoundAnswer>>
    BY DEF RunNext
  <1> QED BY <1>5, <1>6, <1>7, <1>8, <1>9, <1>10, <1>11, RunKeeps

LEMMA RunParallelStep ==
  ASSUME IInv, RunParallel
  PROVE  IInv'
  <1>1. PICK ran \in SUBSET toRun :
         /\ backend' = [b \in Backend |-> backend'[b]]
         /\ \A b \in Backend : IF b \in ran THEN backend'[b] \in Checked(backend[b], TRUE)
                               ELSE backend'[b] = backend[b]
         /\ result' = Overall(AnswersOf(ran, backend'))
    BY DEF RunParallel
  <1>2. ran \subseteq mAllBackends /\ mAllBackends \subseteq Backend
    BY DEF IInv, TypeOK
  <1>3. pc = "run" /\ pc' = "found" /\ toRun' = {}
        /\ UNCHANGED <<formulaVars, informVars, answerVars, mUsedBackends, mAllBackends,
                     mBackendsFoundAnswer>>
    BY DEF RunParallel
  <1>4. ASSUME NEW b \in ran
        PROVE  /\ backend'[b] \in BackendState
               /\ backend'[b].told = backend[b].told
               /\ backend'[b].informed = backend[b].informed
               /\ Sound(backend'[b])
               /\ backend'[b].state = "SAT" => ~Infeasible(Received)
               /\ backend'[b].state = "UNSAT" => Infeasible(Received)
    <2>1. backend[b] \in BackendState /\ Sound(backend[b]) /\ b \in mAllBackends
      BY <1>2 DEF IInv, TypeOK, BackendsSound
    <2>2. backend'[b] \in Checked(backend[b], TRUE)
      BY <1>1, <1>2
    <2>3. backend[b].told = Received
      BY <1>3, <2>1, ToldReceived
    <2>4. /\ backend'[b] \in BackendState
          /\ backend'[b].told = backend[b].told
          /\ backend'[b].informed = backend[b].informed
          /\ Sound(backend'[b])
          /\ backend'[b].state = "SAT" => ~Infeasible(backend[b].told)
      BY <2>1, <2>2, CheckedFacts
    <2>5. backend'[b].state = "UNSAT" => Infeasible(backend'[b].told)
      BY <2>4, SoundUnsat DEF Sound
    <2> QED BY <2>3, <2>4, <2>5
  <1>5. ASSUME NEW b \in Backend, b \notin ran
        PROVE  /\ backend'[b] = backend[b] /\ backend[b] \in BackendState
               /\ b \in mAllBackends => Sound(backend[b])
    BY <1>1, <1>5 DEF IInv, TypeOK, BackendsSound
  <1>6. backend' \in [Backend -> BackendState]
    <2>1. \A b \in Backend : backend'[b] \in BackendState
      BY <1>4, <1>5
    <2> QED BY <1>1, <2>1
  <1>7. \A b \in mAllBackends : /\ backend'[b].told = backend[b].told
                                /\ backend'[b].informed = backend[b].informed
                                /\ Sound(backend'[b])
    BY <1>2, <1>4, <1>5
  <1>8. /\ result' \in Answer
        /\ result' = "UNSAT" => Infeasible(Received)
        /\ result' = "SAT" => ~Infeasible(Received)
    <2>1. /\ result' \in Answer
          /\ result' \in {"SAT", "UNSAT"} => result' \in AnswersOf(ran, backend')
      BY <1>1 DEF Overall, Answer
    <2> QED BY <1>4, <2>1 DEF AnswersOf
  <1> QED BY <1>3, <1>6, <1>7, <1>8, RunKeeps

LEMMA CheckEndStep ==
  ASSUME IInv, CheckEnd
  PROVE  IInv'
  <1> USE DEF IInv
  <1>1. /\ UNCHANGED <<formulaVars, informVars, backendVars, toRun, mBackendsFoundAnswer>>
        /\ pc = "found" /\ pc' = "idle" /\ result' = "UNKNOWN"
        /\ mSolverState' = result
        /\ mInfeasibleSubsets' = IF result = "UNSAT" THEN SubsetsFound ELSE mInfeasibleSubsets
    BY DEF CheckEnd
  <1>2. ASSUME NEW S \in SubsetsFound PROVE S \subseteq Received /\ Infeasible(S)
    <2>1. PICK b \in mUsedBackends : S \in backend[b].infeasible
      BY DEF SubsetsFound
    <2>2. b \in mAllBackends
      BY DEF TypeOK
    <2>3. S \subseteq backend[b].told /\ Infeasible(S)
      BY <2>1, <2>2 DEF BackendsSound, Sound
    <2>4. backend[b].told \subseteq Received
      <3>1. \A i \in 1 .. mFirstSubformulaToPass - 1 : mpPassedFormula[i] \in Received
        BY PassedFacts
      <3>2. backend[b].told = {mpPassedFormula[i] : i \in 1 .. mFirstSubformulaToPass - 1}
        BY <2>2 DEF BackendsToldPassed
      <3> QED BY <3>1, <3>2, SMTT(30)
    <2> QED BY <2>3, <2>4
  <1>3. OwnSubsets'
    BY <1>1, <1>2 DEF OwnSubsets, Received, formulaVars
  <1>4. OwnUnsat'
    BY <1>1 DEF OwnUnsat, AnswerSound, Received, formulaVars
  <1>5. mInfeasibleSubsets' \subseteq SUBSET Formula
    BY <1>1, <1>2, PassedFacts DEF TypeOK
  <1>6. TypeOK'
    BY <1>1, <1>5 DEF TypeOK, formulaVars, informVars, backendVars, Answer
  <1>7. PassedIsPrefix' /\ BackendsToldPassed' /\ BackendsSound'
    BY <1>1 DEF PassedIsPrefix, BackendsToldPassed, BackendsSound, Sound, formulaVars, backendVars
  <1>8. \A f : Known(f) => Known(f)'
    BY <1>1 DEF Known, informVars, backendVars
  <1>9. Announced'
    BY <1>1, <1>8 DEF Announced, Received, formulaVars, informVars
  <1>10. CheckWellFormed' /\ AnswerSound'
    BY <1>1 DEF CheckWellFormed, AnswerSound
  <1> QED BY <1>3, <1>4, <1>6, <1>7, <1>9, <1>10

LEMMA StutterStep == IInv /\ UNCHANGED vars => IInv'
  <1> SUFFICES ASSUME IInv, UNCHANGED vars PROVE IInv'
    OBVIOUS
  <1> USE DEF IInv, vars, formulaVars, informVars, answerVars, backendVars, checkVars
  <1>1. TypeOK' /\ PassedIsPrefix' /\ BackendsToldPassed' /\ BackendsSound'
    BY DEF TypeOK, PassedIsPrefix, BackendsToldPassed, BackendsSound, Sound
  <1>2. \A f : Known(f) => Known(f)'
    BY DEF Known
  <1>3. Announced'
    BY <1>2 DEF Announced, Received
  <1>4. OwnSubsets' /\ OwnUnsat' /\ CheckWellFormed' /\ AnswerSound'
    BY DEF OwnSubsets, OwnUnsat, CheckWellFormed, AnswerSound, Received
  <1> QED BY <1>1, <1>3, <1>4

LEMMA Inductive == IInv /\ [Next]_vars => IInv'
  <1> SUFFICES ASSUME IInv, [Next]_vars PROVE IInv'
    OBVIOUS
  <1> QED BY InformStep, AddStep, RemoveStep, DeinformStep, InitBackendsStep, CheckAtOnceStep,
             CheckBeginStep, UpdateStep, RunNextStep, RunParallelStep, CheckEndStep,
             StutterStep DEF Next

LEMMA Invariance == Spec => []IInv
  BY InitIInv, Inductive, PTL DEF Spec

-----------------------------------------------------------------------------
(* The types of the module's and its backends' state.                      *)
THEOREM TypeCorrect == Spec => []TypeOK
  <1>1. IInv => TypeOK
    BY DEF IInv
  <1> QED BY Invariance, <1>1, PTL

(* What is passed is the beginning of what is received, so copying by      *)
(* position passes exactly the rest (Module::checkCore, remove).           *)
THEOREM CopyByPosition == Spec => []PassedIsPrefix
  <1>1. IInv => PassedIsPrefix
    BY DEF IInv
  <1> QED BY Invariance, <1>1, PTL

(* All backends, whenever created and whether used or not, have been told  *)
(* the same formulas (Module::runBackends, Manager::getBackends).          *)
THEOREM BackendsInStep == Spec => []BackendsToldPassed
  <1>1. IInv => BackendsToldPassed
    BY DEF IInv
  <1> QED BY Invariance, <1>1, PTL

(* No backend is told a constraint it was not informed of.                 *)
THEOREM InformedFirst == Spec => []InformedBeforeTold
  BY Invariance, IInvImplies, PTL

(* Infeasible subsets survive removals only while they are right.          *)
THEOREM SubsetsSound == Spec => []SubsetsCurrent
  BY Invariance, IInvImplies, PTL

(* If the backends' verdicts are right for what they were told, the        *)
(* module's are for what it has received (Module::check).                  *)
THEOREM AnswersCorrect == Spec => []AnswerSound
  <1>1. IInv => AnswerSound
    BY DEF IInv
  <1> QED BY Invariance, <1>1, PTL

(* An UNSAT left standing by add and remove is still right.                *)
THEOREM UnsatPersists == Spec => []UnsatStaysRight
  BY Invariance, IInvImplies, PTL

-----------------------------------------------------------------------------
(* Sequentially, the backends that have run precede, in the order of       *)
(* priority, those still to run, and none of them has an answer.           *)
RunInOrder == pc = "run" =>
    \A b \in mUsedBackends \ toRun :
        backend[b].state = "UNKNOWN" /\ \A c \in toRun : b <= c

LEMMA FreshStep ==
  ASSUME ~Parallel, IInv, RunInOrder, ModelIsFresh, [Next]_vars
  PROVE  RunInOrder' /\ ModelIsFresh'
  <1>1. CASE RunNext
    <2>1. PICK b \in toRun :
            /\ \A c \in toRun : b <= c
            /\ \E r \in Checked(backend[b], mBackendsFoundAnswer) :
                 /\ backend' = [backend EXCEPT ![b] = r]
                 /\ result' = r.state
                 /\ toRun' = IF result' = "UNKNOWN" THEN toRun \ {b} ELSE {}
                 /\ pc' = IF toRun' = {} THEN "found" ELSE "run"
      BY <1>1 DEF RunNext
    <2>2. PICK r \in Checked(backend[b], mBackendsFoundAnswer) :
              /\ backend' = [backend EXCEPT ![b] = r]
              /\ result' = r.state
              /\ toRun' = IF result' = "UNKNOWN" THEN toRun \ {b} ELSE {}
              /\ pc' = IF toRun' = {} THEN "found" ELSE "run"
      BY <2>1
    <2>3. /\ b \in mUsedBackends /\ b \in mAllBackends
          /\ mUsedBackends \subseteq Backend /\ toRun \subseteq mUsedBackends
          /\ backend \in [Backend -> BackendState] /\ backend[b] \in BackendState
          /\ Sound(backend[b])
      BY DEF IInv, TypeOK, BackendsSound
    <2>4. /\ backend'[b] = r
          /\ \A c \in mUsedBackends : c # b => backend'[c] = backend[c]
      BY <2>2, <2>3
    <2>5. pc = "run" /\ mUsedBackends' = mUsedBackends /\ mpReceivedFormula' = mpReceivedFormula
      BY <1>1 DEF RunNext, formulaVars
    <2>6. \A c \in mUsedBackends \ toRun : backend[c].state = "UNKNOWN" /\ \A d \in toRun : c <= d
      BY <2>5 DEF RunInOrder
    <2>7. RunInOrder'
      <3> SUFFICES ASSUME pc' = "run", NEW c \in mUsedBackends \ toRun'
                   PROVE  backend'[c].state = "UNKNOWN" /\ \A d \in toRun' : c <= d
        BY <2>5 DEF RunInOrder
      <3>1. r.state = "UNKNOWN" /\ toRun' = toRun \ {b}
        BY <2>2
      <3>2. CASE c = b
        BY <2>1, <2>4, <3>1, <3>2
      <3>3. CASE c # b
        BY <2>4, <2>6, <3>1, <3>3
      <3> QED BY <3>2, <3>3
    <2>8. ModelIsFresh'
      <3> SUFFICES ASSUME result' = "SAT"
                   PROVE  /\ BackendsModel' # {}
                          /\ \A c \in BackendsModel' : Received \subseteq backend'[c].satisfied
        BY <2>5 DEF ModelIsFresh, Received
      <3>1. r.state = "SAT" /\ r.satisfied = Received
        <4>1. r.state = "SAT"
          BY <2>2
        <4>2. mBackendsFoundAnswer \in BOOLEAN
          BY DEF IInv, TypeOK
        <4>3. r.satisfied = backend[b].told
          BY <2>3, <4>1, <4>2, CheckedFacts
        <4> QED BY <2>3, <2>5, <4>1, <4>3, ToldReceived
      <3> DEFINE sat == {c \in mUsedBackends : backend'[c].state = "SAT"}
      <3>2. b \in sat /\ \A c \in sat : b <= c
        <4>1. ASSUME NEW c \in sat, c # b PROVE c \in toRun
          BY <2>4, <2>6, <4>1
        <4>2. b <= b
          BY <2>1
        <4> QED BY <2>1, <2>3, <2>4, <3>1, <4>1, <4>2
      <3>3. BackendsModel' = {c \in sat : \A d \in sat : c <= d}
        BY <2>5 DEF BackendsModel, FirstOf
      <3>4. \A c \in sat : c \in Int
        <4>1. mUsedBackends \subseteq Backend
          BY <2>3
        <4>2. \A n \in Backend : n \in Int
          BY BackendsAssumption DEF Backend
        <4> QED BY <4>1, <4>2
      <3>5. BackendsModel' = {b}
        <4> HIDE DEF sat
        <4> QED BY <3>2, <3>3, <3>4
      <3> QED BY <2>4, <3>1, <3>5
    <2> QED BY <2>7, <2>8
  <1>2. CASE Update
    <2>1. CASE pc' = "run"
      <3>1. toRun' = mUsedBackends /\ mUsedBackends' = mUsedBackends
        BY <1>2, <2>1 DEF Update
      <3> QED BY <2>1, <3>1 DEF RunInOrder, ModelIsFresh
    <2>2. CASE pc' = "found"
      <3>1. result' = "UNSAT"
        BY <1>2, <2>2 DEF Update
      <3> QED BY <2>2, <3>1 DEF RunInOrder, ModelIsFresh
    <2>3. pc' \in {"run", "found"}
      BY <1>2 DEF Update
    <2> QED BY <2>1, <2>2, <2>3
  <1>3. CASE CheckBegin
    BY <1>3 DEF CheckBegin, RunInOrder, ModelIsFresh
  <1>4. CASE CheckEnd
    BY <1>4 DEF CheckEnd, RunInOrder, ModelIsFresh
  <1>5. CASE CheckAtOnce \/ InitBackends
    BY <1>5 DEF CheckAtOnce, InitBackends, checkVars, RunInOrder, ModelIsFresh
  <1>6. CASE \E f \in Formula : Inform(f) \/ Add(f) \/ Remove(f) \/ Deinform(f)
    BY <1>6 DEF Inform, Add, Remove, Deinform, checkVars, RunInOrder, ModelIsFresh
  <1>7. CASE RunParallel
    BY <1>7 DEF RunParallel
  <1>8. CASE UNCHANGED vars
    BY <1>8 DEF vars, formulaVars, backendVars, checkVars, RunInOrder, ModelIsFresh,
                BackendsModel, FirstOf
  <1> QED BY <1>1, <1>2, <1>3, <1>4, <1>5, <1>6, <1>7, <1>8 DEF Next

(* In a sequential solver the model comes from a backend that was asked    *)
(* about all that was received (Module::backendsModel).                    *)
THEOREM SequentialModelFresh ==
  ASSUME ~Parallel
  PROVE  Spec => []ModelIsFresh
  <1>1. Init => RunInOrder /\ ModelIsFresh
    BY DEF Init, RunInOrder, ModelIsFresh
  <1>2. IInv /\ RunInOrder /\ ModelIsFresh /\ [Next]_vars => (RunInOrder /\ ModelIsFresh)'
    BY FreshStep
  <1> QED BY Invariance, <1>1, <1>2, PTL DEF Spec
=============================================================================
