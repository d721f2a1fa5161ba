----------------------------- MODULE RuleProofs -----------------------------
(***************************************************************************)
(* Proofs about the rules: the rule manager of the multi-threaded engine,  *)
(* for any rules, packets and fast paths, and the sequential engine, for   *)
(* any captures, frames and rules.                                         *)
(***************************************************************************)
EXTENDS RuleManager, WorkingEngine, LineProofs, Integers, FiniteSetTheorems, TLAPS

(***************************************************************************)
(* The rule manager.                                                       *)
(***************************************************************************)
(* What the history says: a rule in force was so at the beginning or was   *)
(* blocked since, and one that was never removed is still in force.        *)
HistoryOK == \A t \in Threads : InForce \subseteq Ever(t) /\ Always(t) \subseteq InForce

\* The rules in the tables should_block has behind it did not match.
Checked(c) == {r \in Rules : \E i \in 1..(stage[c] - 1) : KindOf[r] = CheckOrder[i]}
CheckOK == \A c \in Checkers : stage[c] > 0 => probe[c] \cap Checked(c) \cap Always(c) = {}

\* The rules in the sections Admin has behind it; all, when it is done.
Passed == {r \in Rules : \E i \in 1..4 : KindOf[r] = FileOrder[i] /\ (section = 0 \/ i < section)}
Saved == {r \in Rules : file[r] > 0}
Lost == {r \in OfKind("domain") : \E b \in Bracketed : file[b] > 0}

AdminOK ==
  /\ op = "clear" => Passed \cap InForce \subseteq added[Admin]
  /\ op = "save" => Passed \cap Always(Admin) \subseteq Saved /\ Saved \subseteq Ever(Admin)
  /\ op = "load" => /\ \A r \in Saved : left[r] > 0 \/ r \in InForce \cup removed[Admin] \cup Lost
                    /\ \A r \in Passed : left[r] = 0
                    /\ \A r \in Rules : left[r] <= file[r]

ChecksOK == CheckOK /\ CoveredIsBlocked /\ ReasonHolds

(* The inductive invariant.                                                *)
IInv == TypeOK /\ HistoryOK /\ ChecksOK /\ AdminOK
-----------------------------------------------------------------------------
LEMMA Orders ==
  /\ \A i \in 1..4 : CheckOrder[i] \in Kinds /\ FileOrder[i] \in Kinds
  /\ \A i \in 1..4 : Rank(CheckOrder[i]) = i
  /\ \A k \in Kinds : /\ \E i \in 1..4 : CheckOrder[i] = k
                      /\ \E i \in 1..4 : FileOrder[i] = k
<1>1. /\ CheckOrder[1] = "ip" /\ CheckOrder[2] = "port"
      /\ CheckOrder[3] = "app" /\ CheckOrder[4] = "domain"
  BY DEF CheckOrder
<1>2. /\ FileOrder[1] = "ip" /\ FileOrder[2] = "app"
      /\ FileOrder[3] = "domain" /\ FileOrder[4] = "port"
  BY DEF FileOrder
<1>3. \A i \in 1..4 : i = 1 \/ i = 2 \/ i = 3 \/ i = 4
  OBVIOUS
<1>4. \A i, j \in 1..4 : CheckOrder[i] = CheckOrder[j] => i = j
  BY <1>1, <1>3
<1>5. \A i \in 1..4 : Rank(CheckOrder[i]) = i
  BY <1>4 DEF Rank
<1>6. \A i \in 1..4 : CheckOrder[i] \in Kinds /\ FileOrder[i] \in Kinds
  BY <1>1, <1>2, <1>3 DEF Kinds
<1>7. \A k \in Kinds : /\ \E i \in 1..4 : CheckOrder[i] = k
                       /\ \E i \in 1..4 : FileOrder[i] = k
  BY <1>1, <1>2 DEF Kinds
<1>8. QED BY <1>5, <1>6, <1>7

\* Behind the last section is everything.
LEMMA AllPassed == section = 0 => Passed = Rules
BY Orders, RuleAssumption DEF Passed

LEMMA PassedStep ==
  ASSUME TypeOK, section > 0, NextSection
  PROVE  /\ Passed' = Passed \cup OfKind(FileOrder[section])
         /\ section' \in 0..4
<1>1. section \in 1..4
  BY DEF TypeOK
<1>2. CASE section = 4
  BY <1>2, Orders, RuleAssumption DEF NextSection, Passed, OfKind
<1>3. CASE section < 4
  <2>1. section' = section + 1
    BY <1>1, <1>3 DEF NextSection
  <2>2. \A i \in 1..4 : i < section + 1 <=> i < section \/ i = section
    BY <1>1
  <2>3. QED BY <1>1, <1>3, <2>1, <2>2 DEF Passed, OfKind
<1>4. QED BY <1>1, <1>2, <1>3

(* A change of the tables that states every rule it puts into force.       *)
LEMMA ChangeFacts ==
  ASSUME TypeOK, HistoryOK, NEW new \in [Rules -> Nat], NEW rs \in SUBSET Rules,
         \A r \in Rules : new[r] > 0 => r \in InForce \cup rs,
         Change(new, rs)
  PROVE  /\ HistoryOK'
         /\ copies' \in [Rules -> Nat]
         /\ before' \in [Threads -> SUBSET Rules]
         /\ added' \in [Threads -> SUBSET Rules]
         /\ removed' \in [Threads -> SUBSET Rules]
         /\ \A t \in Threads : /\ Always(t)' \subseteq Always(t)
                               /\ Ever(t) \subseteq Ever(t)'
                               /\ added'[t] = added[t] \cup rs
                               /\ InForce \subseteq InForce' \cup removed'[t]
                               /\ removed[t] \subseteq removed'[t]
         /\ InForce' \subseteq InForce \cup rs
<1>1. /\ copies' = new /\ before' = before
      /\ added' = [t \in Threads |-> added[t] \cup rs]
      /\ removed' = [t \in Threads |-> removed[t] \cup {r \in InForce : new[r] = 0}]
  BY DEF Change
<1>2. \A t \in Threads : /\ added'[t] = added[t] \cup rs
                         /\ removed'[t] = removed[t] \cup {r \in InForce : new[r] = 0}
  BY <1>1
<1>3. InForce' = {r \in Rules : new[r] > 0}
  BY <1>1 DEF InForce
<1>4. \A r \in InForce : r \in InForce' \/ new[r] = 0
  BY <1>3 DEF InForce
<1>5. /\ before' \in [Threads -> SUBSET Rules] /\ added' \in [Threads -> SUBSET Rules]
      /\ removed' \in [Threads -> SUBSET Rules]
  BY <1>1 DEF TypeOK, InForce
<1>6. \A t \in Threads : /\ Always(t)' \subseteq Always(t) /\ Ever(t) \subseteq Ever(t)'
                         /\ InForce \subseteq InForce' \cup removed'[t]
                         /\ removed[t] \subseteq removed'[t]
  BY <1>1, <1>2, <1>4 DEF Always, Ever
<1>7. InForce' \subseteq InForce \cup rs
  BY <1>3
<1>8. HistoryOK'
  <2>1. \A t \in Threads : InForce' \subseteq before'[t] \cup added'[t]
    BY <1>1, <1>2, <1>7 DEF HistoryOK, Ever
  <2>2. \A t \in Threads : before'[t] \ removed'[t] \subseteq InForce'
    BY <1>1, <1>2, <1>4 DEF HistoryOK, Always
  <2>3. QED BY <2>1, <2>2 DEF HistoryOK, Always, Ever
<1>9. QED BY <1>1, <1>2, <1>5, <1>6, <1>7, <1>8

\* Edits only weaken what the checkers are owed.
LEMMA ChecksKept ==
  ASSUME ChecksOK, UNCHANGED checkVars,
         \A c \in Checkers : Always(c)' \subseteq Always(c) /\ Ever(c) \subseteq Ever(c)'
  PROVE  ChecksOK'
<1>1. stage' = stage /\ probe' = probe /\ verdict' = verdict
  BY DEF checkVars
<1>2. CheckOK'
  BY <1>1 DEF ChecksOK, CheckOK, Checked
<1>3. CoveredIsBlocked'
  BY <1>1 DEF ChecksOK, CoveredIsBlocked
<1>4. ReasonHolds'
  BY <1>1 DEF ChecksOK, ReasonHolds, OfKind, Rank
<1>5. QED BY <1>2, <1>3, <1>4 DEF ChecksOK

LEMMA BlockedFacts ==
  ASSUME TypeOK, NEW r \in Rules
  PROVE  /\ Blocked(r) \in [Rules -> Nat] /\ Blocked(r)[r] > 0
         /\ \A x \in Rules : Blocked(r)[x] > 0 => x \in InForce \cup {r}
         /\ \A x \in Rules \ Patterns : Blocked(r)[x] <= 1
<1>1. \A x \in Rules : Blocked(r)[x] = IF x = r THEN (IF r \in Patterns THEN copies[r] + 1 ELSE 1)
                                             ELSE copies[x]
  BY DEF TypeOK, Blocked
<1>2. Blocked(r) \in [Rules -> Nat]
  BY DEF TypeOK, Blocked
<1>3. QED BY <1>1, <1>2 DEF TypeOK, InForce

LEMMA UnblockedFacts ==
  ASSUME TypeOK, NEW r \in Rules
  PROVE  /\ Unblocked(r) \in [Rules -> Nat]
         /\ \A x \in Rules : Unblocked(r)[x] <= copies[x]
<1>1. \A x \in Rules : Unblocked(r)[x] = IF x = r THEN (IF copies[r] = 0 THEN 0 ELSE copies[r] - 1)
                                               ELSE copies[x]
  BY DEF TypeOK, Unblocked
<1>2. Unblocked(r) \in [Rules -> Nat]
  BY DEF TypeOK, Unblocked
<1>3. QED BY <1>1, <1>2 DEF TypeOK

\* An edit by anybody keeps what Admin has achieved.
LEMMA AdminKept ==
  ASSUME AdminOK, UNCHANGED <<file, adminVars>>, NEW rs,
         InForce' \subseteq InForce \cup rs,
         added'[Admin] = added[Admin] \cup rs,
         Always(Admin)' \subseteq Always(Admin), Ever(Admin) \subseteq Ever(Admin)',
         InForce \subseteq InForce' \cup removed'[Admin],
         removed[Admin] \subseteq removed'[Admin]
  PROVE  AdminOK'
<1>1. /\ file' = file /\ op' = op /\ section' = section /\ left' = left
      /\ Passed' = Passed /\ Saved' = Saved /\ Lost' = Lost
  BY DEF adminVars, Passed, Saved, Lost, OfKind
<1>2. QED BY <1>1 DEF AdminOK
-----------------------------------------------------------------------------
(* The inductive invariant holds initially.                                *)
THEOREM IInvInit == Init => IInv
<1> SUFFICES ASSUME Init PROVE IInv
  OBVIOUS
<1>1. TypeOK
  BY RuleAssumption DEF Init, TypeOK, Nothing
<1>2. HistoryOK
  BY DEF Init, HistoryOK, InForce, Nothing, Always
<1>3. ChecksOK
  BY DEF Init, ChecksOK, CheckOK, CoveredIsBlocked, ReasonHolds
<1>4. AdminOK
  BY DEF Init, AdminOK
<1>5. QED BY <1>1, <1>2, <1>3, <1>4 DEF IInv

LEMMA BlockInv == ASSUME IInv, NEW r \in Rules, Block(r) PROVE IInv'
<1>1. /\ Change(Blocked(r), {r}) /\ calls' \in 0..MaxCalls
      /\ UNCHANGED <<file, checkVars, adminVars>>
  BY RuleAssumption DEF Block, Call, IInv, TypeOK
<1> DEFINE new == Blocked(r)
<1>2. /\ new \in [Rules -> Nat] /\ \A x \in Rules : new[x] > 0 => x \in InForce \cup {r}
      /\ \A x \in Rules \ Patterns : new[x] <= 1
  BY BlockedFacts DEF IInv
<1>3. Change(new, {r})
  BY <1>1
<1> HIDE DEF new
<1>4. /\ HistoryOK' /\ copies' = new
      /\ before' \in [Threads -> SUBSET Rules] /\ added' \in [Threads -> SUBSET Rules]
      /\ removed' \in [Threads -> SUBSET Rules]
      /\ \A t \in Threads : /\ Always(t)' \subseteq Always(t) /\ Ever(t) \subseteq Ever(t)'
                            /\ added'[t] = added[t] \cup {r}
                            /\ InForce \subseteq InForce' \cup removed'[t]
                            /\ removed[t] \subseteq removed'[t]
      /\ InForce' \subseteq InForce \cup {r}
  <2>1. copies' = new
    BY <1>3 DEF Change
  <2>2. {r} \in SUBSET Rules
    OBVIOUS
  <2>3. QED BY <1>2, <1>3, <2>1, <2>2, ChangeFacts DEF IInv
<1>5. TypeOK'
  BY <1>1, <1>2, <1>4 DEF IInv, TypeOK, checkVars, adminVars
<1>6. ChecksOK'
  BY <1>1, <1>4, ChecksKept DEF IInv, Threads
<1>7. AdminOK'
  BY <1>1, <1>4, AdminKept DEF IInv, Threads
<1>8. QED BY <1>4, <1>5, <1>6, <1>7 DEF IInv

LEMMA UnblockInv == ASSUME IInv, NEW r \in Rules, Unblock(r) PROVE IInv'
<1>1. /\ Change(Unblocked(r), {}) /\ calls' \in 0..MaxCalls
      /\ UNCHANGED <<file, checkVars, adminVars>>
  BY RuleAssumption DEF Unblock, Call, IInv, TypeOK
<1> DEFINE new == Unblocked(r)
<1>2. /\ new \in [Rules -> Nat] /\ \A x \in Rules : new[x] <= copies[x]
  BY UnblockedFacts DEF IInv
<1>3. Change(new, {})
  BY <1>1
<1> HIDE DEF new
<1>4. /\ \A x \in Rules : new[x] > 0 => x \in InForce \cup {}
      /\ \A x \in Rules \ Patterns : new[x] <= 1
  BY <1>2 DEF InForce, IInv, TypeOK
<1>5. /\ HistoryOK' /\ copies' = new
      /\ before' \in [Threads -> SUBSET Rules] /\ added' \in [Threads -> SUBSET Rules]
      /\ removed' \in [Threads -> SUBSET Rules]
      /\ \A t \in Threads : /\ Always(t)' \subseteq Always(t) /\ Ever(t) \subseteq Ever(t)'
                            /\ added'[t] = added[t] \cup {}
                            /\ InForce \subseteq InForce' \cup removed'[t]
                            /\ removed[t] \subseteq removed'[t]
      /\ InForce' \subseteq InForce \cup {}
  <2>1. copies' = new
    BY <1>3 DEF Change
  <2>2. QED BY <1>2, <1>3, <1>4, <2>1, ChangeFacts DEF IInv
<1>6. TypeOK'
  BY <1>1, <1>2, <1>4, <1>5 DEF IInv, TypeOK, checkVars, adminVars
<1>7. ChecksOK'
  BY <1>1, <1>5, ChecksKept DEF IInv, Threads
<1>8. AdminOK'
  BY <1>1, <1>5, AdminKept DEF IInv, Threads
<1>9. QED BY <1>5, <1>6, <1>7, <1>8 DEF IInv
-----------------------------------------------------------------------------
\* A thread that begins has the rules in force as its before.
LEMMA BeginFacts ==
  ASSUME TypeOK, HistoryOK, NEW t \in Threads, Begin(t), copies' = copies
  PROVE  /\ HistoryOK' /\ InForce' = InForce
         /\ before' \in [Threads -> SUBSET Rules] /\ added' \in [Threads -> SUBSET Rules]
         /\ removed' \in [Threads -> SUBSET Rules]
         /\ \A u \in Threads \ {t} : /\ before'[u] = before[u] /\ added'[u] = added[u]
                                     /\ removed'[u] = removed[u]
<1>1. \A u \in Threads : /\ before'[u] = IF u = t THEN InForce ELSE before[u]
                         /\ added'[u] = IF u = t THEN {} ELSE added[u]
                         /\ removed'[u] = IF u = t THEN {} ELSE removed[u]
  BY DEF Begin, TypeOK
<1>2. InForce' = InForce /\ InForce \subseteq Rules
  BY DEF InForce
<1>3. /\ before' \in [Threads -> SUBSET Rules] /\ added' \in [Threads -> SUBSET Rules]
      /\ removed' \in [Threads -> SUBSET Rules]
  BY <1>2 DEF Begin, TypeOK
<1>4. HistoryOK'
  BY <1>1, <1>2 DEF HistoryOK, Always, Ever
<1>5. QED BY <1>1, <1>2, <1>3, <1>4

LEMMA StartCheckInv ==
  ASSUME IInv, NEW c \in Checkers, NEW p \in Probes, StartCheck(c, p) PROVE IInv'
<1>1. /\ stage' = [stage EXCEPT ![c] = 1] /\ probe' = [probe EXCEPT ![c] = p]
      /\ Begin(c) /\ UNCHANGED <<copies, file, verdict, adminVars, calls>>
      /\ c \in Threads /\ c # Admin /\ Admin \in Threads
  BY RuleAssumption DEF StartCheck, Threads
<1>2. /\ HistoryOK' /\ InForce' = InForce
      /\ before' \in [Threads -> SUBSET Rules] /\ added' \in [Threads -> SUBSET Rules]
      /\ removed' \in [Threads -> SUBSET Rules]
      /\ \A u \in Threads \ {c} : /\ before'[u] = before[u] /\ added'[u] = added[u]
                                  /\ removed'[u] = removed[u]
  BY <1>1, BeginFacts DEF IInv
<1>3. TypeOK'
  <2>1. p \in SUBSET Rules BY RuleAssumption
  <2>2. stage' \in [Checkers -> 0..4] /\ probe' \in [Checkers -> SUBSET Rules]
    BY <1>1, <2>1 DEF IInv, TypeOK
  <2>3. QED BY <1>1, <1>2, <2>2 DEF IInv, TypeOK, adminVars
<1>4. \A d \in Checkers : /\ stage'[d] = IF d = c THEN 1 ELSE stage[d]
                          /\ d # c => probe'[d] = probe[d] /\ Always(d)' = Always(d)
                                      /\ Ever(d)' = Ever(d)
  BY <1>1, <1>2 DEF IInv, TypeOK, Threads, Always, Ever
<1>5. CheckOK'
  <2>1. SUFFICES ASSUME NEW d \in Checkers, stage'[d] > 0
                 PROVE  probe'[d] \cap Checked(d)' \cap Always(d)' = {}
    BY DEF CheckOK
  <2>2. CASE d = c
    BY <1>4, <2>2 DEF Checked
  <2>3. CASE d # c
    BY <1>4, <2>1, <2>3 DEF IInv, ChecksOK, CheckOK, Checked
  <2>4. QED BY <2>2, <2>3
<1>6. CoveredIsBlocked' /\ ReasonHolds'
  BY <1>1, <1>4 DEF IInv, ChecksOK, CoveredIsBlocked, ReasonHolds, OfKind, Rank
<1>7. AdminOK'
  <2>1. /\ added'[Admin] = added[Admin] /\ removed'[Admin] = removed[Admin]
        /\ Always(Admin)' = Always(Admin) /\ Ever(Admin)' = Ever(Admin)
    BY <1>1, <1>2 DEF Always, Ever
  <2>2. QED BY <1>1, <1>2, <2>1 DEF IInv, AdminOK, adminVars, Passed, Saved, Lost, OfKind
<1>8. QED BY <1>2, <1>3, <1>5, <1>6, <1>7 DEF IInv, ChecksOK

LEMMA ConsultInv == ASSUME IInv, NEW c \in Checkers, Consult(c) PROVE IInv'
<1> DEFINE s == stage[c]  k == CheckOrder[s]
<1>1. /\ s > 0 /\ UNCHANGED <<copies, file, probe, adminVars, calls, before, added, removed>>
      /\ \/ Matches(k, probe[c]) /\ Answer(c, k)
         \/ ~Matches(k, probe[c]) /\ s = 4 /\ Answer(c, "none")
         \/ /\ ~Matches(k, probe[c]) /\ s < 4
            /\ stage' = [stage EXCEPT ![c] = s + 1]
            /\ UNCHANGED verdict
  BY DEF Consult
<1>2. s \in 1..4 /\ k \in Kinds
  BY <1>1, Orders DEF IInv, TypeOK
<1>3. HistoryOK' /\ AdminOK'
  BY <1>1 DEF IInv, HistoryOK, AdminOK, adminVars, InForce, Always, Ever, Passed, Saved,
              Lost, OfKind
<1>4. TypeOK'
  BY <1>1, <1>2 DEF IInv, TypeOK, Answer, adminVars
<1>5. \A d \in Checkers : /\ Always(d)' = Always(d) /\ Ever(d)' = Ever(d) /\ probe'[d] = probe[d]
                          /\ d # c => stage'[d] = stage[d] /\ verdict'[d] = verdict[d]
  BY <1>1 DEF IInv, TypeOK, Answer, Always, Ever
<1>6. probe[c] \cap Checked(c) \cap Always(c) = {}
  BY <1>1 DEF IInv, ChecksOK, CheckOK
<1>7. InForce \subseteq Ever(c) /\ Always(c) \subseteq InForce /\ probe[c] \subseteq Rules
  BY DEF IInv, HistoryOK, Threads, TypeOK
<1> SUFFICES ASSUME NEW d \in Checkers
             PROVE  /\ stage'[d] > 0 => probe'[d] \cap Checked(d)' \cap Always(d)' = {}
                    /\ stage'[d] = 0 /\ verdict'[d] = "none" => probe'[d] \cap Always(d)' = {}
                    /\ stage'[d] = 0 /\ verdict'[d] # "none" =>
                         /\ probe'[d] \cap OfKind(verdict'[d]) \cap Ever(d)' # {}
                         /\ \A r \in probe'[d] \cap Always(d)' :
                              Rank(KindOf[r]) >= Rank(verdict'[d])
  <2>1. CheckOK' /\ CoveredIsBlocked' /\ ReasonHolds'
    BY DEF CheckOK, CoveredIsBlocked, ReasonHolds, Rank, OfKind
  <2>2. QED BY <1>3, <1>4, <2>1 DEF IInv, ChecksOK
<1>8. CASE d # c
  BY <1>5, <1>8 DEF IInv, ChecksOK, CheckOK, CoveredIsBlocked, ReasonHolds, Checked
<1>9. CASE d = c
  <2>1. CASE Matches(k, probe[c]) /\ Answer(c, k)
    <3>1. stage'[c] = 0 /\ verdict'[c] = k /\ k # "none"
      BY <1>2, <2>1 DEF Answer, IInv, TypeOK, Kinds
    <3>2. probe[c] \cap OfKind(k) \cap Ever(c) # {}
      BY <1>7, <2>1 DEF Matches
    <3>3. \A r \in probe[c] \cap Always(c) : Rank(KindOf[r]) >= s
      <4>1. SUFFICES ASSUME NEW r \in probe[c] \cap Always(c) PROVE Rank(KindOf[r]) >= s
        OBVIOUS
      <4>2. r \in Rules /\ KindOf[r] \in Kinds
        BY <1>7, RuleAssumption
      <4>3. PICK i \in 1..4 : CheckOrder[i] = KindOf[r]
        BY <4>2, Orders
      <4>4. ~(i \in 1..(s - 1))
        BY <1>6, <4>2, <4>3 DEF Checked
      <4>5. QED BY <1>2, <4>3, <4>4, Orders
    <3>4. Rank(k) = s
      BY <1>2, Orders
    <3>5. QED BY <1>5, <1>9, <3>1, <3>2, <3>3, <3>4
  <2>2. CASE ~Matches(k, probe[c]) /\ s = 4 /\ Answer(c, "none")
    <3>1. stage'[c] = 0 /\ verdict'[c] = "none"
      BY <2>2 DEF Answer, IInv, TypeOK
    <3>2. probe[c] \cap Always(c) = {}
      <4>1. SUFFICES ASSUME NEW r \in probe[c] \cap Always(c) PROVE FALSE
        OBVIOUS
      <4>2. r \in Rules /\ r \in InForce /\ KindOf[r] \in Kinds
        BY <1>7, RuleAssumption
      <4>3. PICK i \in 1..4 : CheckOrder[i] = KindOf[r]
        BY <4>2, Orders
      <4>4. i = s
        BY <1>6, <2>2, <4>2, <4>3 DEF Checked
      <4>5. QED BY <2>2, <4>2, <4>3, <4>4 DEF Matches, OfKind
    <3>3. QED BY <1>5, <1>9, <3>1, <3>2
  <2>3. CASE /\ ~Matches(k, probe[c]) /\ s < 4
             /\ stage' = [stage EXCEPT ![c] = s + 1]
             /\ UNCHANGED verdict
    <3>1. stage'[c] = s + 1
      BY <2>3 DEF IInv, TypeOK
    <3>2. Checked(c)' = Checked(c) \cup OfKind(k)
      <4>1. \A i : i \in 1..(s + 1 - 1) <=> i \in 1..(s - 1) \/ i = s
        BY <1>2
      <4>2. \A r : r \in Checked(c)' <=>
                     r \in Rules /\ \E i \in 1..(s + 1 - 1) : KindOf[r] = CheckOrder[i]
        <5>1. stage'[c] - 1 = s + 1 - 1
          BY <1>2, <3>1
        <5>2. QED BY <5>1 DEF Checked
      <4>3. \A r : r \in Checked(c) <=>
                     r \in Rules /\ \E i \in 1..(s - 1) : KindOf[r] = CheckOrder[i]
        BY DEF Checked
      <4>4. \A r : r \in Checked(c)' <=> r \in Checked(c) \/ r \in OfKind(k)
        BY <4>1, <4>2, <4>3 DEF OfKind
      <4>5. QED BY <4>4
    <3>3. probe[c] \cap OfKind(k) \cap Always(c) = {}
      BY <1>7, <2>3 DEF Matches
    <3>4. QED BY <1>2, <1>5, <1>6, <1>9, <3>1, <3>2, <3>3
  <2>4. QED BY <1>1, <2>1, <2>2, <2>3
<1>10. QED BY <1>8, <1>9
-----------------------------------------------------------------------------
(* The operations of Admin.                                                *)
LEMMA StartAdminInv ==
  ASSUME IInv, NEW what \in {"clear", "save", "load"}, StartAdmin(what) PROVE IInv'
<1>1. /\ op' = what /\ section' = 1 /\ section = 0 /\ Begin(Admin) /\ calls' \in 0..MaxCalls
      /\ file' = IF what = "save" THEN Nothing ELSE file
      /\ left' = IF what = "load" THEN file ELSE Nothing
      /\ UNCHANGED <<copies, checkVars>> /\ Admin \in Threads
  BY RuleAssumption DEF StartAdmin, Call, Threads, IInv, TypeOK
<1>2. /\ HistoryOK' /\ InForce' = InForce
      /\ before' \in [Threads -> SUBSET Rules] /\ added' \in [Threads -> SUBSET Rules]
      /\ removed' \in [Threads -> SUBSET Rules]
      /\ \A u \in Threads \ {Admin} : /\ before'[u] = before[u] /\ added'[u] = added[u]
                                      /\ removed'[u] = removed[u]
  BY <1>1, BeginFacts DEF IInv
<1>3. TypeOK'
  <2>1. Nothing \in [Rules -> Nat]
    BY DEF Nothing
  <2>2. file' \in [Rules -> Nat] /\ left' \in [Rules -> Nat]
    BY <1>1, <2>1 DEF IInv, TypeOK
  <2>3. QED BY <1>1, <1>2, <2>2 DEF IInv, TypeOK, checkVars
<1>4. ChecksOK'
  <2>1. \A c \in Checkers : Always(c)' \subseteq Always(c) /\ Ever(c) \subseteq Ever(c)'
    BY <1>2, RuleAssumption DEF Always, Ever, Threads
  <2>2. QED BY <1>1, <2>1, ChecksKept DEF IInv
<1>5. AdminOK'
  <2>1. Passed' = {}
    BY <1>1 DEF Passed
  <2>2. CASE what = "clear"
    BY <1>1, <2>1, <2>2 DEF AdminOK
  <2>3. CASE what = "save"
    BY <1>1, <2>1, <2>3 DEF AdminOK, Saved, Nothing
  <2>4. CASE what = "load"
    <3>1. \A r \in Saved' : left'[r] > 0
      BY <1>1, <2>4 DEF Saved
    <3>2. \A r \in Rules : left'[r] <= file'[r]
      BY <1>1, <2>4 DEF IInv, TypeOK
    <3>3. QED BY <1>1, <2>1, <2>4, <3>1, <3>2 DEF AdminOK
  <2>5. QED BY <2>2, <2>3, <2>4
<1>6. QED BY <1>2, <1>3, <1>4, <1>5 DEF IInv

LEMMA ClearTableInv == IInv /\ ClearTable => IInv'
<1> SUFFICES ASSUME IInv, ClearTable PROVE IInv'
  OBVIOUS
<1> DEFINE k == FileOrder[section]
           new == [r \in Rules |-> IF r \in OfKind(k) THEN 0 ELSE copies[r]]
<1>1. /\ op = "clear" /\ section > 0 /\ Change(new, {}) /\ NextSection
      /\ UNCHANGED <<file, checkVars, op, left, calls>>
  BY DEF ClearTable, Cleared
<1>2. /\ new \in [Rules -> Nat] /\ \A r \in Rules : new[r] <= copies[r]
      /\ \A r \in OfKind(k) : new[r] = 0
  BY DEF IInv, TypeOK, OfKind
<1>3. copies' = new
  BY <1>1 DEF Change
<1>4. Passed' = Passed \cup OfKind(k) /\ section' \in 0..4
  BY <1>1, PassedStep DEF IInv
<1> HIDE DEF new, k
<1>5. /\ HistoryOK'
      /\ before' \in [Threads -> SUBSET Rules] /\ added' \in [Threads -> SUBSET Rules]
      /\ removed' \in [Threads -> SUBSET Rules]
      /\ \A t \in Threads : /\ Always(t)' \subseteq Always(t) /\ Ever(t) \subseteq Ever(t)'
                            /\ added'[t] = added[t] \cup {}
      /\ InForce' \subseteq InForce \cup {}
  <2>1. \A r \in Rules : new[r] > 0 => r \in InForce \cup {}
    BY <1>2 DEF InForce, IInv, TypeOK
  <2>2. QED BY <1>1, <1>2, <2>1, ChangeFacts DEF IInv
<1>6. TypeOK'
  BY <1>1, <1>2, <1>3, <1>4, <1>5 DEF IInv, TypeOK, checkVars
<1>7. ChecksOK'
  BY <1>1, <1>5, ChecksKept DEF IInv, Threads
<1>8. AdminOK'
  <2>1. OfKind(k) \cap InForce' = {}
    BY <1>2, <1>3 DEF InForce
  <2>2. QED BY <1>1, <1>4, <1>5, <2>1 DEF IInv, AdminOK, Threads
<1>9. QED BY <1>5, <1>6, <1>7, <1>8 DEF IInv

\* Steps of Admin that touch neither the tables nor the history.
LEMMA TablesKept ==
  ASSUME IInv, UNCHANGED <<copies, checkVars, calls, before, added, removed>>
  PROVE  /\ HistoryOK' /\ ChecksOK' /\ InForce' = InForce
         /\ Always(Admin)' = Always(Admin) /\ Ever(Admin)' = Ever(Admin)
BY ChecksKept DEF IInv, HistoryOK, InForce, Always, Ever

LEMMA SaveSectionInv == IInv /\ SaveSection => IInv'
<1> SUFFICES ASSUME IInv, SaveSection PROVE IInv'
  OBVIOUS
<1> DEFINE k == FileOrder[section]
<1>1. /\ op = "save" /\ section > 0 /\ NextSection
      /\ file' = [r \in Rules |-> IF r \in OfKind(k) THEN copies[r] ELSE file[r]]
      /\ UNCHANGED <<copies, checkVars, op, left, calls, before, added, removed>>
  BY DEF SaveSection
<1>2. Passed' = Passed \cup OfKind(k) /\ section' \in 0..4
  BY <1>1, PassedStep DEF IInv
<1>3. Saved' = (Saved \ OfKind(k)) \cup (OfKind(k) \cap InForce)
  BY <1>1 DEF Saved, InForce, OfKind
<1> HIDE DEF k
<1>4. TypeOK'
  BY <1>1, <1>2 DEF IInv, TypeOK, checkVars
<1>5. AdminOK'
  <2>1. Always(Admin) \subseteq InForce /\ InForce \subseteq Ever(Admin)
    BY DEF IInv, HistoryOK, Threads
  <2>2. QED BY <1>1, <1>2, <1>3, <2>1, TablesKept DEF IInv, AdminOK
<1>6. QED BY <1>1, <1>4, <1>5, TablesKept DEF IInv

LEMMA SaveFailsInv == IInv /\ SaveFails => IInv'
<1> SUFFICES ASSUME IInv, SaveFails PROVE IInv'
  OBVIOUS
<1> USE DEF SaveFails
<1>1. TypeOK'
  BY DEF IInv, TypeOK, checkVars
<1>2. AdminOK'
  BY DEF AdminOK
<1>3. QED BY <1>1, <1>2, TablesKept DEF IInv

LEMMA LoadHeaderInv == IInv /\ LoadHeader => IInv'
<1> SUFFICES ASSUME IInv, LoadHeader PROVE IInv'
  OBVIOUS
<1>1. /\ op = "load" /\ section > 0 /\ Lines = {} /\ NextSection
      /\ UNCHANGED <<copies, file, checkVars, op, left, calls, before, added, removed>>
  BY DEF LoadHeader
<1>2. Passed' = Passed \cup OfKind(FileOrder[section]) /\ section' \in 0..4
  BY <1>1, PassedStep DEF IInv
<1>3. TypeOK'
  BY <1>1, <1>2 DEF IInv, TypeOK, checkVars
<1>4. \A r \in OfKind(FileOrder[section]) : left[r] = 0
  BY <1>1 DEF Lines, IInv, TypeOK, OfKind
<1>5. Saved' = Saved /\ Lost' = Lost
  BY <1>1 DEF Saved, Lost, OfKind
<1>6. AdminOK'
  BY <1>1, <1>2, <1>4, <1>5, TablesKept DEF IInv, AdminOK
<1>7. QED BY <1>1, <1>3, <1>6, TablesKept DEF IInv

LEMMA LoadLineInv == ASSUME IInv, NEW r \in Rules, LoadLine(r) PROVE IInv'
<1>1. /\ op = "load" /\ section > 0 /\ left[r] > 0 /\ r \in OfKind(FileOrder[section])
      /\ UNCHANGED <<file, checkVars, op, section, calls>>
      /\ Passed' = Passed /\ Saved' = Saved /\ Lost' = Lost
  BY DEF LoadLine, Lines, Passed, Saved, Lost, OfKind
<1>2. CASE r \in Bracketed
  <2>1. /\ left' = [x \in Rules |-> IF x \in Lines THEN 0 ELSE left[x]]
        /\ UNCHANGED <<copies, before, added, removed>>
    BY <1>2 DEF LoadLine
  <2>2. TypeOK'
    BY <1>1, <2>1 DEF IInv, TypeOK, checkVars
  <2>3. \A x \in Saved \cap Lines : x \in Lost
    <3>1. SUFFICES ASSUME NEW x \in Saved \cap Lines PROVE x \in Lost
      OBVIOUS
    <3>2. KindOf[r] = "domain" /\ KindOf[x] = KindOf[r] /\ x \in Rules
      BY <1>1, <1>2, RuleAssumption DEF Lines, OfKind
    <3>3. file[r] > 0
      BY <1>1 DEF IInv, AdminOK, TypeOK
    <3>4. QED BY <1>2, <3>2, <3>3 DEF Lost, OfKind
  <2>4. AdminOK'
    <3>1. \A x \in Saved : left'[x] > 0 \/ x \in InForce \cup removed[Admin] \cup Lost
      BY <1>1, <2>1, <2>3 DEF IInv, AdminOK, Saved
    <3>2. \A x \in Passed : left'[x] = 0
      BY <1>1, <2>1 DEF IInv, AdminOK, Passed
    <3>3. \A x \in Rules : left'[x] <= file[x]
      BY <1>1, <2>1 DEF IInv, AdminOK, TypeOK
    <3>4. QED BY <1>1, <2>1, <3>1, <3>2, <3>3, TablesKept DEF AdminOK
  <2>5. QED BY <1>1, <2>1, <2>2, <2>4, TablesKept DEF IInv
<1>3. CASE r \notin Bracketed
  <2> DEFINE new == Blocked(r)
  <2>1. left' = [left EXCEPT ![r] = left[r] - 1] /\ Change(new, {r}) /\ copies' = new
    BY <1>3 DEF LoadLine, Change
  <2>2. /\ new \in [Rules -> Nat] /\ new[r] > 0
        /\ \A x \in Rules : new[x] > 0 => x \in InForce \cup {r}
        /\ \A x \in Rules \ Patterns : new[x] <= 1
    BY BlockedFacts DEF IInv
  <2> HIDE DEF new
  <2>3. {r} \in SUBSET Rules
    OBVIOUS
  <2>4. /\ HistoryOK'
        /\ before' \in [Threads -> SUBSET Rules] /\ added' \in [Threads -> SUBSET Rules]
        /\ removed' \in [Threads -> SUBSET Rules]
        /\ \A t \in Threads : /\ Always(t)' \subseteq Always(t) /\ Ever(t) \subseteq Ever(t)'
                              /\ InForce \subseteq InForce' \cup removed'[t]
                              /\ removed[t] \subseteq removed'[t]
    BY <2>1, <2>2, <2>3, ChangeFacts DEF IInv
  <2>5. left' \in [Rules -> Nat] /\ \A x \in Rules : left'[x] <= left[x]
                                 /\ (x # r => left'[x] = left[x])
    BY <1>1, <2>1 DEF IInv, TypeOK
  <2>6. TypeOK'
    BY <1>1, <2>1, <2>2, <2>4, <2>5 DEF IInv, TypeOK, checkVars
  <2>7. ChecksOK'
    BY <1>1, <2>4, ChecksKept DEF IInv, Threads
  <2>8. AdminOK'
    <3>1. r \in InForce' /\ Saved \subseteq Rules /\ Passed \subseteq Rules
      BY <2>1, <2>2 DEF InForce, Saved, Passed
    <3>2. \A x \in Saved : left'[x] > 0 \/ x \in InForce' \cup removed'[Admin] \cup Lost
      BY <1>1, <2>4, <2>5, <3>1 DEF IInv, AdminOK, Threads
    <3>3. \A x \in Passed : left'[x] = 0
      BY <1>1, <2>5, <3>1 DEF IInv, AdminOK, TypeOK
    <3>4. \A x \in Rules : left'[x] <= file[x]
      BY <1>1, <2>5 DEF IInv, AdminOK, TypeOK
    <3>5. QED BY <1>1, <3>2, <3>3, <3>4 DEF AdminOK
  <2>9. QED BY <2>4, <2>6, <2>7, <2>8 DEF IInv
<1>4. QED BY <1>2, <1>3
-----------------------------------------------------------------------------
(* Every step keeps the inductive invariant.                               *)
THEOREM IInvStep == IInv /\ [Next]_vars => IInv'
<1> SUFFICES ASSUME IInv, [Next]_vars PROVE IInv'
  OBVIOUS
<1>1. CASE \E r \in Rules : Block(r) \/ Unblock(r) \/ LoadLine(r)
  BY <1>1, BlockInv, UnblockInv, LoadLineInv
<1>2. CASE \E c \in Checkers : Consult(c) \/ \E p \in Probes : StartCheck(c, p)
  BY <1>2, ConsultInv, StartCheckInv
<1>3. CASE \E what \in {"clear", "save", "load"} : StartAdmin(what)
  BY <1>3, StartAdminInv
<1>4. CASE ClearTable \/ SaveSection \/ SaveFails \/ LoadHeader
  BY <1>4, ClearTableInv, SaveSectionInv, SaveFailsInv, LoadHeaderInv
<1>5. CASE UNCHANGED vars
  <2>1. UNCHANGED <<copies, file, checkVars, adminVars, calls, before, added, removed>>
    BY <1>5 DEF vars
  <2>2. TypeOK'
    BY <2>1 DEF IInv, TypeOK, checkVars, adminVars
  <2>3. AdminOK'
    BY <2>1, TablesKept DEF IInv, AdminOK, adminVars, Passed, Saved, Lost, OfKind
  <2>4. QED BY <2>1, <2>2, <2>3, TablesKept DEF IInv
<1>6. QED BY <1>1, <1>2, <1>3, <1>4, <1>5 DEF Next

(* The inductive invariant holds in every reachable state.                 *)
THEOREM IInvInvariant == Spec => []IInv
BY IInvInit, IInvStep, PTL DEF Spec

(* The variables keep their types; a table that is a set holds a rule once.*)
THEOREM TypeCorrect == Spec => []TypeOK
<1>1. IInv => TypeOK
  BY DEF IInv
<1>2. QED BY <1>1, IInvInvariant, PTL

(* should_block never passes a packet that a rule in force throughout the  *)
(* check matches, whatever is blocked, unblocked, cleared or loaded        *)
(* meanwhile.                                                              *)
THEOREM CoveredPacketsBlocked == Spec => []CoveredIsBlocked
<1>1. IInv => CoveredIsBlocked
  BY DEF IInv, ChecksOK
<1>2. QED BY <1>1, IInvInvariant, PTL

(* Its reason was in force during the check and none of a kind consulted   *)
(* earlier was in force throughout.                                        *)
THEOREM ReasonsHold == Spec => []ReasonHolds
<1>1. IInv => ReasonHolds
  BY DEF IInv, ChecksOK
<1>2. QED BY <1>1, IInvInvariant, PTL

(* clear_all leaves only rules blocked since it began.                     *)
THEOREM ClearClears == Spec => []ClearLeavesOnlyNew
<1>1. IInv => ClearLeavesOnlyNew
  BY AllPassed DEF IInv, AdminOK, ClearLeavesOnlyNew, InForce
<1>2. QED BY <1>1, IInvInvariant, PTL

(* save_rules writes every rule in force throughout, and no other than     *)
(* such as were in force at some time.                                     *)
THEOREM SavesFaithfully == Spec => []SaveFaithful
<1>1. IInv => SaveFaithful
  <2>1. SUFFICES ASSUME IInv, op = "save", section = 0
                 PROVE  Always(Admin) \subseteq Saved /\ Saved \subseteq Ever(Admin)
    BY DEF SaveFaithful, Saved
  <2>2. Always(Admin) \subseteq Rules
    <3>1. before[Admin] \in SUBSET Rules
      BY <2>1 DEF IInv, TypeOK, Threads
    <3>2. QED BY <3>1 DEF Always
  <2>3. QED BY <2>1, <2>2, AllPassed DEF IInv, AdminOK
<1>2. QED BY <1>1, IInvInvariant, PTL

(* load_rules puts every rule of the file in force, but for those removed  *)
(* since and the domains of a file with a domain that starts with a bracket*)
THEOREM LoadsCompletely == Spec => []LoadComplete
<1>1. IInv => LoadComplete
  <2>1. SUFFICES ASSUME IInv, op = "load", section = 0, NEW r \in Rules, file[r] > 0
                 PROVE  r \in InForce \/ r \in removed[Admin] \/ r \in Lost
    BY DEF LoadComplete, Lost, OfKind
  <2>2. left[r] = 0 /\ r \in Saved
    BY <2>1, AllPassed DEF IInv, AdminOK, Saved
  <2>3. QED BY <2>1, <2>2 DEF IInv, AdminOK
<1>2. QED BY <1>1, IInvInvariant, PTL
-----------------------------------------------------------------------------
(***************************************************************************)
(* The sequential engine.                                                  *)
(***************************************************************************)
\* Every frame is read as it was sent; ExtractorsRight says so of those read.
FramesRight == \A f \in Frames : ReadRight(f)

LEMMA FrameBytes ==
  ASSUME NEW f \in Frames
  PROVE  /\ Bytes[f] \in Seq(0..255) /\ Len(Bytes[f]) \in Nat
         /\ \A k \in 1..Len(Bytes[f]) : Bytes[f][k] \in 0..255
<1> DEFINE d == Bytes[f]  B == 0..255
<1>1. d \in Seq(B)
  BY WorkingAssumption
<1> HIDE DEF d, B
<1>2. Len(d) \in Nat /\ \A k \in 1..Len(d) : d[k] \in B
  BY <1>1
<1>3. QED BY <1>1, <1>2 DEF d, B

(* What parse_into hands on: one header after the other lies within the    *)
(* frame.                                                                  *)
LEMMA Headers ==
  ASSUME NEW f \in Frames, NEW parsed \in Transport(Bytes[f])
  PROVE  LET d == Bytes[f]
             ip == ETH_HEADER_LEN + IHL(d) * 4
         IN /\ IHL(d) \in Nat /\ ip \in Nat
            /\ parsed.tuple.protocol = Protocol(d)
            /\ \/ /\ Protocol(d) = TCP /\ Len(d) >= ip + 20
                  /\ DataOffset(d, ip) \in Nat
                  /\ parsed.offset = ip + DataOffset(d, ip) * 4
               \/ /\ Protocol(d) = UDP
                  /\ parsed.offset = ip + UDP_HEADER_LEN
<1> DEFINE d == Bytes[f]
           ip == ETH_HEADER_LEN + IHL(d) * 4
<1>1. /\ d \in Seq(0..255) /\ Len(d) \in Nat
      /\ \A k \in 1..Len(d) : d[k] \in 0..255
  BY FrameBytes
<1>2. PICK at \in ParseIPv4(d) : \E end \in EndOfHeaders(d, at) :
        parsed.tuple.protocol = Protocol(d) /\ parsed.offset = end
  BY DEF Transport
<1>0. PICK end \in EndOfHeaders(d, at) :
        parsed.tuple.protocol = Protocol(d) /\ parsed.offset = end
  BY <1>2
<1>3. at = ip /\ Len(d) >= 34
  BY <1>1, <1>2 DEF ParseIPv4, ETH_HEADER_LEN, MIN_IP_HEADER_LEN
<1>4. IHL(d) \in Nat
  <2>1. Byte(d, 14) \in 0..255
    BY <1>1, <1>3 DEF Byte
  <2>2. QED BY <2>1 DEF IHL
<1>5. ip \in Nat
  BY <1>4 DEF ETH_HEADER_LEN
<1> HIDE DEF d
<1>6. CASE Protocol(d) = TCP
  <2>1. end \in ParseTCP(d, ip)
    BY <1>0, <1>3, <1>6 DEF EndOfHeaders
  <2> HIDE DEF ip
  <2>2. Len(d) >= ip + 20 /\ end = ip + DataOffset(d, ip) * 4
    BY <2>1 DEF ParseTCP, MIN_TCP_HEADER_LEN
  <2>3. Byte(d, ip + 12) \in 0..255
    BY <1>1, <1>5, <2>2 DEF Byte
  <2>4. DataOffset(d, ip) \in Nat
    BY <2>3 DEF DataOffset
  <2>5. QED BY <1>0, <1>4, <1>5, <1>6, <2>2, <2>4 DEF d, ip
<1>7. CASE Protocol(d) # TCP
  <2>1. Protocol(d) = UDP /\ end \in ParseUDP(d, ip)
    BY <1>0, <1>3, <1>7 DEF EndOfHeaders
  <2>2. end = ip + UDP_HEADER_LEN
    BY <2>1 DEF ParseUDP
  <2>3. QED BY <1>0, <1>4, <1>5, <2>1, <2>2 DEF d, ip
<1>8. QED BY <1>6, <1>7

LEMMA Offsets ==
  ASSUME NEW f \in Frames, NEW parsed \in Transport(Bytes[f])
  PROVE  /\ StandaloneOffset(Bytes[f], parsed) = parsed.offset
         /\ JobOffset(Bytes[f], parsed) = parsed.offset
         /\ parsed.tuple.protocol = TCP => WorkingOffset(Bytes[f]) = {parsed.offset}
<1> DEFINE d == Bytes[f]
           ip == ETH_HEADER_LEN + IHL(d) * 4
<1>1. /\ ip \in Nat
      /\ parsed.tuple.protocol = Protocol(d)
      /\ \/ /\ Protocol(d) = TCP /\ Len(d) >= ip + 20
            /\ parsed.offset = ip + DataOffset(d, ip) * 4
         \/ /\ Protocol(d) = UDP
            /\ parsed.offset = ip + UDP_HEADER_LEN
  BY Headers
<1>2. Len(d) \in Nat
  BY FrameBytes
<1>3. TCP # UDP
  BY DEF TCP, UDP
<1> HIDE DEF d
<1>4. StandaloneOffset(d, parsed)
        = IF parsed.tuple.protocol = TCP /\ ip + 12 < Len(d)
          THEN ip + DataOffset(d, ip) * 4
          ELSE IF parsed.tuple.protocol = UDP THEN ip + UDP_HEADER_LEN ELSE ip
  BY DEF StandaloneOffset
<1>5. JobOffset(d, parsed)
        = IF parsed.tuple.protocol = TCP /\ Len(d) > ip
          THEN ip + DataOffset(d, ip) * 4
          ELSE IF parsed.tuple.protocol = UDP THEN ip + UDP_HEADER_LEN ELSE 0
  BY DEF JobOffset
<1>6. WorkingOffset(d) = IF ip + 12 < Len(d) THEN {ip + DataOffset(d, ip) * 4} ELSE {}
  BY DEF WorkingOffset
<1> HIDE DEF ip
<1>7. /\ StandaloneOffset(d, parsed) = parsed.offset
      /\ JobOffset(d, parsed) = parsed.offset
      /\ parsed.tuple.protocol = TCP => WorkingOffset(d) = {parsed.offset}
  BY <1>1, <1>2, <1>3, <1>4, <1>5, <1>6
<1>8. QED BY <1>7 DEF d

(* The loop reads one record after the other of one capture.               *)
Reading ==
  /\ phase \in {"start", "loop", "done", "failed", "dead"}
  /\ input \in Captures
  /\ pos \in 0..Len(input.records)
  /\ \A i \in Read : ReadNextPacket(input, i - 1) = {IdAt(i)}
  /\ phase = "start" => pos = 0

LEMMA Captured ==
  ASSUME NEW c \in Captures
  PROVE  /\ DOMAIN c.records = 1..Len(c.records) /\ Len(c.records) \in Nat
         /\ \A k \in 1..Len(c.records) :
              /\ c.records[k].data \in Frames
              /\ c.records[k].whole = "all" =>
                   MaybeSwap32(c, c.records[k].inclLen) = Len(Bytes[c.records[k].data])
BY WorkingAssumption

\* read_next_packet, when it returns a packet.
LEMMA ReadOne ==
  ASSUME NEW pcap, NEW n \in Nat, NEW id \in ReadNextPacket(pcap, n), Len(pcap.records) \in Nat
  PROVE  /\ n < Len(pcap.records) /\ id = pcap.records[n + 1].data
         /\ ReadNextPacket(pcap, n) = {id}
         /\ pcap.records[n + 1].whole = "all"
         /\ MaybeSwap32(pcap, pcap.records[n + 1].inclLen) <= GlobalHeader(pcap).snaplen
         /\ MaybeSwap32(pcap, pcap.records[n + 1].inclLen) <= MAX_PACKET_LENGTH
<1>1. ~(n >= Len(pcap.records))
  BY DEF ReadNextPacket
<1>2. QED BY <1>1 DEF ReadNextPacket

LEMMA IdsAreFrames == Reading => \A i \in Read : IdAt(i) \in Frames
<1> SUFFICES ASSUME Reading, NEW i \in Read PROVE IdAt(i) \in Frames
  OBVIOUS
<1>1. input \in Captures /\ pos \in 0..Len(input.records)
  BY DEF Reading
<1>2. Len(input.records) \in Nat
  BY <1>1, Captured
<1>3. i \in 1..Len(input.records)
  BY <1>1, <1>2 DEF Read
<1>4. QED BY <1>1, <1>3, Captured DEF IdAt

LEMMA ReadingInit == MainInit => Reading
<1> SUFFICES ASSUME MainInit PROVE Reading
  OBVIOUS
<1>1. input \in Captures /\ pos = 0 /\ phase = "start"
  BY DEF MainInit
<1>2. Len(input.records) \in Nat
  BY <1>1, Captured
<1>3. QED BY <1>1, <1>2 DEF Reading, Read

LEMMA ReadingStep == Reading /\ [MainNext]_main => Reading'
<1> SUFFICES ASSUME Reading, [MainNext]_main PROVE Reading'
  OBVIOUS
<1>1. input \in Captures /\ pos \in 0..Len(input.records) /\ Len(input.records) \in Nat
  BY Captured DEF Reading
<1>2. CASE UNCHANGED <<pos, input>> /\ phase' \in {"loop", "done", "failed", "dead"}
  BY <1>2 DEF Reading, Read, IdAt
<1>3. CASE ProcessPacket
  <2>1. PICK id \in ReadNextPacket(input, pos) : TRUE
    BY <1>3 DEF ProcessPacket
  <2>2. phase' = "loop" /\ pos' = pos + 1 /\ input' = input
    BY <1>3 DEF ProcessPacket
  <2>3. /\ pos < Len(input.records) /\ id = input.records[pos + 1].data
        /\ ReadNextPacket(input, pos) = {id}
    BY <1>1, <2>1, ReadOne
  <2>4. pos' \in 0..Len(input.records)
    BY <1>1, <2>2, <2>3
  <2>5. ASSUME NEW i \in 1..(pos + 1)
        PROVE  ReadNextPacket(input, i - 1) = {input.records[i].data}
    <3>1. CASE i = pos + 1
      <4>1. i - 1 = pos
        BY <1>1, <3>1
      <4>2. QED BY <2>3, <3>1, <4>1
    <3>2. CASE i # pos + 1
      <4>1. i \in Read
        BY <1>1, <3>2 DEF Read
      <4>2. QED BY <4>1 DEF Reading, IdAt
    <3>3. QED BY <3>1, <3>2
  <2>6. QED BY <1>1, <2>2, <2>4, <2>5 DEF Reading, Read, IdAt
<1>4. CASE UNCHANGED main
  BY <1>4 DEF main, Reading, Read, IdAt
<1>5. CASE Open \/ Close \/ Die
  <2>1. UNCHANGED <<pos, input>> /\ phase' \in {"loop", "done", "failed", "dead"}
    BY <1>5 DEF Open, Close, Die
  <2>2. QED BY <1>2, <2>1
<1>6. QED BY <1>3, <1>4, <1>5 DEF MainNext

(* The payload of every packet inspected starts at one place, whichever    *)
(* module works it out, for any frames and captures.                       *)
THEOREM OffsetsAlwaysAgree == MainSpec => []OffsetsAgree
<1>1. Reading => OffsetsAgree
  BY IdsAreFrames, Offsets DEF OffsetsAgree, Carried
<1>2. MainSpec => []Reading
  BY ReadingInit, ReadingStep, PTL DEF MainSpec
<1>3. QED BY <1>1, <1>2, PTL

-----------------------------------------------------------------------------
(* What the frames read so far say, before and after one more of them.     *)
LEMMA MinIs ==
  ASSUME NEW S \in SUBSET Nat, S # {}
  PROVE  Min(S) \in S /\ \A y \in S : Min(S) <= y
<1>1. \E x \in S : \A y \in S : x <= y
  BY LeastNatural
<1>2. QED BY <1>1 DEF Min

LEMMA MinUnique ==
  ASSUME NEW S \in SUBSET Nat, NEW x \in S, \A y \in S : x <= y
  PROVE  Min(S) = x
<1>1. Min(S) \in S /\ Min(S) <= x
  BY MinIs
<1>2. Min(S) \in Nat /\ x \in Nat /\ x <= Min(S)
  BY <1>1
<1>3. QED BY <1>1, <1>2

LEMMA MinLater ==
  ASSUME NEW p \in Nat, NEW S \in SUBSET (1..p), S # {}
  PROVE  Min(S \cup {p + 1}) = Min(S)
<1>1. S \in SUBSET Nat
  OBVIOUS
<1>2. Min(S) \in S /\ \A y \in S : Min(S) <= y
  BY <1>1, MinIs
<1>3. Min(S) \in S \cup {p + 1} /\ S \cup {p + 1} \in SUBSET Nat
  BY <1>1, <1>2
<1>4. \A y \in S \cup {p + 1} : Min(S) <= y
  <2>1. Min(S) \in 1..p
    BY <1>2
  <2>2. Min(S) <= p + 1
    BY <2>1
  <2>3. QED BY <1>2, <2>2
<1>5. QED BY <1>3, <1>4, MinUnique

\* Sets of packets along which one more is read.
Turn(n, u) ==
  /\ Reading /\ n = pos + 1 /\ pos' = n /\ input' = input /\ rules' = rules
  /\ u = Sent[input.records[n].data].tuple

LEMMA TurnSets ==
  ASSUME NEW n, NEW u, Turn(n, u)
  PROVE  /\ n \in Nat /\ pos \in Nat /\ n = pos + 1 /\ n \notin 1..pos
         /\ Carried \subseteq 1..pos
         /\ \A i \in 1..n : IdAt(i)' = IdAt(i)
         /\ Carried' = Carried \cup (IF u # << >> THEN {n} ELSE {})
         /\ \A t : /\ OfFlow(t) \subseteq 1..pos
                  /\ OfFlow(t)' = OfFlow(t) \cup (IF u # << >> /\ t = u THEN {n} ELSE {})
<1>1. pos \in Nat /\ n = pos + 1 /\ pos' = n /\ input' = input
  BY Captured DEF Turn, Reading
<1>2. \A i : IdAt(i)' = IdAt(i)
  BY <1>1 DEF IdAt
<1>3. \A i : i \in 1..n <=> i \in 1..pos \/ i = n
  BY <1>1
<1>4. n \notin 1..pos /\ n \in Nat
  BY <1>1
<1>5. Sent[IdAt(n)].tuple = u
  BY DEF Turn, IdAt
<1>6. Carried = {i \in 1..pos : Sent[IdAt(i)].tuple # << >>}
  BY DEF Carried, Read
<1>7. Carried' = {i \in 1..n : Sent[IdAt(i)].tuple # << >>}
  BY <1>1, <1>2 DEF Carried, Read
<1>8. Carried' = Carried \cup (IF u # << >> THEN {n} ELSE {})
  BY <1>3, <1>5, <1>6, <1>7
<1>9. ASSUME NEW t
      PROVE  /\ OfFlow(t) \subseteq 1..pos
             /\ OfFlow(t)' = OfFlow(t) \cup (IF u # << >> /\ t = u THEN {n} ELSE {})
  <2>1. OfFlow(t)' = {i \in Carried' : Sent[IdAt(i)].tuple = t}
    BY <1>2 DEF OfFlow
  <2>2. QED BY <1>5, <1>6, <1>8, <2>1 DEF OfFlow
<1>10. QED BY <1>1, <1>2, <1>4, <1>6, <1>8, <1>9

\* The packet i is of a kind that may name its flow t.
Telling(t, id) ==
  /\ Sent[id].name # << >>
  /\ <<Sent[id].kind, t.protocol, t.dst_port>> \in {<<"tls", TCP, 443>>, <<"http", TCP, 80>>}

OnDNS(t) == 53 \in {t.src_port, t.dst_port}

LEMMA TurnNaming ==
  ASSUME NEW n, NEW u, Turn(n, u), NEW t
  PROVE  /\ Naming(t) \subseteq 1..pos
         /\ Naming(t)' = Naming(t) \cup
              (IF /\ u # << >> /\ t = u /\ Telling(t, IdAt(n))
                  /\ OnDNS(t) => OfFlow(t) = {} THEN {n} ELSE {})
<1>1. /\ n \in Nat /\ pos \in Nat /\ n = pos + 1 /\ n \notin 1..pos
      /\ \A i \in 1..n : IdAt(i)' = IdAt(i)
      /\ OfFlow(t) \in SUBSET (1..pos)
      /\ OfFlow(t)' = OfFlow(t) \cup (IF u # << >> /\ t = u THEN {n} ELSE {})
  BY TurnSets
<1>2. Naming(t) = {i \in OfFlow(t) : Telling(t, IdAt(i)) /\ (OnDNS(t) => i = Min(OfFlow(t)))}
  BY DEF Naming, Telling, OnDNS
<1>3. Naming(t)' = {i \in OfFlow(t)' : Telling(t, IdAt(i)') /\ (OnDNS(t) => i = Min(OfFlow(t)'))}
  BY DEF Naming, Telling, OnDNS
<1>4. 1..pos \subseteq 1..n /\ n \in 1..n
  BY <1>1
<1>5. Naming(t)' = {i \in OfFlow(t)' : Telling(t, IdAt(i)) /\ (OnDNS(t) => i = Min(OfFlow(t)'))}
  BY <1>1, <1>3, <1>4
<1>6. CASE ~(u # << >> /\ t = u)
  BY <1>1, <1>2, <1>5, <1>6
<1>7. CASE u # << >> /\ t = u
  <2>1. OfFlow(t)' = OfFlow(t) \cup {n}
    BY <1>1, <1>7
  <2>2. CASE OfFlow(t) = {}
    <3>1. Min({n}) = n
      BY <1>1, MinUnique
    <3>2. OfFlow(t)' = {n} /\ Naming(t) = {}
      BY <1>2, <2>1, <2>2
    <3>3. Naming(t)' = IF Telling(t, IdAt(n)) THEN {n} ELSE {}
      BY <1>5, <3>1, <3>2
    <3>4. QED BY <1>7, <2>2, <3>2, <3>3
  <2>3. CASE OfFlow(t) # {}
    <3>1. Min(OfFlow(t)') = Min(OfFlow(t))
      BY <1>1, <2>1, <2>3, MinLater
    <3>2. Min(OfFlow(t)) # n
      <4>1. OfFlow(t) \in SUBSET Nat
        BY <1>1
      <4>2. Min(OfFlow(t)) \in OfFlow(t)
        BY <4>1, <2>3, MinIs
      <4>3. QED BY <1>1, <4>2
    <3>3. QED BY <1>1, <1>2, <1>5, <1>7, <2>1, <2>3, <3>1, <3>2
  <2>4. QED BY <2>2, <2>3
<1>8. Naming(t) \subseteq 1..pos
  BY <1>1, <1>2
<1>9. QED BY <1>6, <1>7, <1>8

Told(t, i) == {j \in Naming(t) : j <= i}

LEMMA TurnNames ==
  ASSUME NEW n, NEW u, Turn(n, u), NEW t
  PROVE  /\ \A j \in 1..pos : NameBy(t, j)' = NameBy(t, j)
         /\ NameBy(t, n)' = IF Naming(t) # {} THEN NameBy(t, pos)
                            ELSE IF n \in Naming(t)' THEN Sent[IdAt(n)].name ELSE << >>
         /\ Naming(t) # {} <=> NameBy(t, pos) # << >>
         /\ Naming(t) = {} => NameBy(t, pos) = << >>
<1>1. /\ n \in Nat /\ pos \in Nat /\ n = pos + 1 /\ n \notin 1..pos
      /\ \A i \in 1..n : IdAt(i)' = IdAt(i)
  BY TurnSets
<1>2. /\ Naming(t) \in SUBSET (1..pos)
      /\ Naming(t)' = Naming(t) \/ Naming(t)' = Naming(t) \cup {n}
  BY TurnNaming
<1> DEFINE Name(i) == Sent[input.records[i].data].name
<1>0. input' = input
  BY DEF Turn
<1>3. \A i : NameBy(t, i) = IF Told(t, i) = {} THEN << >> ELSE Name(Min(Told(t, i)))
  BY DEF NameBy, Told, IdAt
<1>4. \A i : NameBy(t, i)' = IF Told(t, i)' = {} THEN << >>
                             ELSE Name(Min(Told(t, i)'))
  BY <1>0 DEF NameBy, Told, IdAt
<1>5. \A i : Told(t, i)' = {j \in Naming(t)' : j <= i}
  BY DEF Told
<1>6. \A i : Told(t, i) \subseteq 1..pos /\ Told(t, i) \in SUBSET Nat
  BY <1>2 DEF Told
<1>7. \A i : Told(t, i) # {} => Min(Told(t, i)) \in Told(t, i)
  BY <1>6, MinIs
<1>9. ASSUME NEW j \in 1..pos PROVE NameBy(t, j)' = NameBy(t, j)
  <2>1. Told(t, j)' = Told(t, j)
    <3>1. ~(n <= j)
      BY <1>1
    <3>2. QED BY <1>2, <1>5, <3>1 DEF Told
  <2>2. QED BY <1>3, <1>4, <2>1
<1>10. Told(t, pos) = Naming(t)
  BY <1>1, <1>2 DEF Told
<1>11. Naming(t) # {} => NameBy(t, pos) # << >>
  <2>1. SUFFICES ASSUME Naming(t) # {} PROVE NameBy(t, pos) # << >>
    OBVIOUS
  <2>2. Min(Naming(t)) \in Naming(t)
    BY <1>7, <1>10, <2>1
  <2>3. Sent[IdAt(Min(Naming(t)))].name # << >>
    BY <2>2 DEF Naming
  <2>4. QED BY <1>3, <1>10, <2>1, <2>3 DEF IdAt
<1>12. Naming(t) = {} => NameBy(t, pos) = << >>
  BY <1>3, <1>10
<1>13. Told(t, n)' = Naming(t)'
  <2>1. \A j \in Naming(t)' : j \in 1..pos \/ j = n
    BY <1>2
  <2>2. \A j \in Naming(t)' : j <= n
    BY <1>1, <2>1
  <2>3. QED BY <1>5, <2>2
<1>14. NameBy(t, n)' = IF Naming(t) # {} THEN NameBy(t, pos)
                       ELSE IF n \in Naming(t)' THEN Sent[IdAt(n)].name ELSE << >>
  <2>1. CASE Naming(t) # {}
    <3>1. Min(Naming(t)') = Min(Naming(t))
      BY <1>1, <1>2, <2>1, MinLater
    <3>2. Naming(t)' # {}
      BY <1>2, <2>1
    <3>3. QED BY <1>3, <1>4, <1>10, <1>13, <2>1, <3>1, <3>2
  <2>2. CASE Naming(t) = {} /\ Naming(t)' = {n}
    <3>1. Min({n}) = n /\ n \in 1..n
      BY <1>1, MinUnique
    <3>2. NameBy(t, n)' = Name(n)
      BY <1>4, <1>13, <2>2, <3>1
    <3>3. n \in Naming(t)'
      BY <2>2
    <3>4. QED BY <2>2, <3>2, <3>3 DEF IdAt
  <2>3. CASE Naming(t) = {} /\ Naming(t)' = {}
    BY <1>4, <1>13, <2>3
  <2>4. QED BY <1>2, <2>1, <2>2, <2>3
<1>15. QED BY <1>9, <1>11, <1>12, <1>14

\* What a flow without a name is taken for.
Guess(t) ==
  IF OnDNS(t) THEN "DNS" ELSE IF t.dst_port = 443 THEN "HTTPS"
  ELSE IF t.dst_port = 80 THEN "HTTP" ELSE "Unknown"

LEMMA KnownIs ==
  ASSUME NEW t, NEW i
  PROVE  Knowledge(t, i) = [sni |-> NameBy(t, i),
                            app |-> IF NameBy(t, i) # << >> THEN SniToAppType(NameBy(t, i))
                                    ELSE Guess(t)]
BY DEF Knowledge, Guess, OnDNS

LEMMA KnownNext ==
  ASSUME NEW t, NEW i
  PROVE  Knowledge(t, i)' = [sni |-> NameBy(t, i)',
                             app |-> IF NameBy(t, i)' # << >> THEN SniToAppType(NameBy(t, i)')
                                     ELSE Guess(t)]
BY DEF Knowledge, Guess, OnDNS

\* A name stands for some application, if only HTTPS.
LEMMA NamesAreKnown ==
  ASSUME NEW sni, sni # << >>
  PROVE  SniToAppType(sni) # "Unknown"
<1> DEFINE matching == {g \in DOMAIN SNIPatterns :
                          \E p \in SNIPatterns[g].patterns : PatternMatches(Lower(sni), p[1], p[2])}
           first == CHOOSE g \in matching : \A h \in matching : g <= h
<1>1. SniToAppType(sni) = IF matching = {} THEN "HTTPS" ELSE SNIPatterns[first].app
  BY DEF SniToAppType
<1>2. matching \subseteq DOMAIN SNIPatterns
  OBVIOUS
<1> HIDE DEF matching
<1>3. CASE matching = {}
  BY <1>1, <1>3
<1>4. CASE matching # {}
  <2>1. matching \subseteq Nat
    BY <1>2, PatternsAssumption
  <2>2. \E g \in matching : \A h \in matching : g <= h
    BY <2>1, <1>4, LeastNatural
  <2>3. first \in matching
    BY <2>2
  <2> HIDE DEF first
  <2>4. SNIPatterns[first].app # "Unknown"
    BY <1>2, <2>3, PatternsAssumption
  <2>5. QED BY <1>1, <1>4, <2>4
<1>5. QED BY <1>3, <1>4

\* What the rules say of a flow once the packets up to i have been seen.
Judged(t, i) == IsBlocked(t.src_ip, Knowledge(t, i).app, Knowledge(t, i).sni)
Banned(t, i) == \E j \in OfFlow(t) : j <= i /\ Judged(t, j)

LEMMA CondemnedIs == ASSUME NEW i PROVE Condemned(i) <=> Banned(Sent[IdAt(i)].tuple, i)
BY DEF Condemned, Banned, Judged

LEMMA TurnJudged ==
  ASSUME NEW n, NEW u, Turn(n, u), NEW t
  PROVE  /\ \A j \in 1..pos : Knowledge(t, j)' = Knowledge(t, j)
         /\ \A j \in 1..pos : Judged(t, j)' <=> Judged(t, j)
         /\ \A i \in 1..pos : Banned(t, i)' <=> Banned(t, i)
         /\ ~(u # << >> /\ t = u) =>
              /\ Knowledge(t, n)' = Knowledge(t, pos)
              /\ Banned(t, n)' <=> Banned(t, pos)
         /\ u # << >> /\ t = u => (Banned(t, n)' <=> Banned(t, pos) \/ Judged(t, n)')
<1>1. /\ n \in Nat /\ pos \in Nat /\ n = pos + 1 /\ n \notin 1..pos
      /\ OfFlow(t) \in SUBSET (1..pos)
      /\ OfFlow(t)' = OfFlow(t) \cup (IF u # << >> /\ t = u THEN {n} ELSE {})
  BY TurnSets
<1>2. ASSUME NEW j \in 1..pos PROVE Knowledge(t, j)' = Knowledge(t, j)
  <2>1. NameBy(t, j)' = NameBy(t, j)
    BY TurnNames
  <2>2. QED BY <2>1, KnownIs, KnownNext
<1>3. \A app, sni : IsBlocked(t.src_ip, app, sni)' <=> IsBlocked(t.src_ip, app, sni)
  BY DEF IsBlocked, Turn
<1>4. ASSUME NEW j \in 1..pos PROVE Judged(t, j)' <=> Judged(t, j)
  BY <1>2, <1>3, Zenon DEF Judged
<1>5. \A i : Banned(t, i)' <=> \E j \in OfFlow(t)' : j <= i /\ Judged(t, j)'
  BY DEF Banned
<1>6. \A i \in 1..pos : ~(n <= i)
  BY <1>1
<1>7. \A i \in 1..pos : Banned(t, i)' <=> Banned(t, i)
  BY <1>1, <1>4, <1>5, <1>6 DEF Banned
<1>8. \A j \in 1..pos : j <= n /\ j <= pos
  BY <1>1
<1>9. n <= n
  BY <1>1
<1>10. CASE ~(u # << >> /\ t = u)
  <2>1. /\ Naming(t) \subseteq 1..pos
        /\ Naming(t)' = Naming(t) \cup
             (IF /\ u # << >> /\ t = u /\ Telling(t, IdAt(n))
                 /\ OnDNS(t) => OfFlow(t) = {} THEN {n} ELSE {})
    BY TurnNaming
  <2>2. n \notin Naming(t)'
    BY <1>1, <1>10, <2>1
  <2>3. NameBy(t, n)' = NameBy(t, pos)
    BY <2>2, TurnNames
  <2>4. Knowledge(t, n)' = Knowledge(t, pos)
    BY <2>3, KnownIs, KnownNext
  <2>5. Banned(t, n)' <=> Banned(t, pos)
    BY <1>1, <1>4, <1>5, <1>8, <1>10 DEF Banned
  <2>6. QED BY <1>2, <1>4, <1>7, <1>10, <2>4, <2>5
<1>11. CASE u # << >> /\ t = u
  <2>1. Banned(t, n)' <=> Banned(t, pos) \/ Judged(t, n)'
    BY <1>1, <1>4, <1>5, <1>8, <1>9, <1>11 DEF Banned
  <2>2. QED BY <1>2, <1>4, <1>7, <1>11, <2>1
<1>12. QED BY <1>10, <1>11

(* The loop looks for a name where the payload starts, in the protocol of  *)
(* the port, and finds what the sender put there.                          *)
LEMMA NamesFound ==
  ASSUME FramesRight, NEW f \in Frames, NEW parsed \in Transport(Bytes[f]), NEW flow
  PROVE  LET t == Sent[f].tuple
             generic == IF t.dst_port = 443 THEN "HTTPS" ELSE "HTTP"
         IN /\ parsed.tuple = t /\ t # << >>
            /\ NamesIn(flow, Bytes[f], parsed)
                 = IF flow.app \in {"Unknown", generic} /\ flow.sni = << >> /\ Telling(t, f)
                   THEN {Sent[f].name} ELSE {}
<1> DEFINE d == Bytes[f]  t == Sent[f].tuple
           Says(kind) == IF Sent[f].kind = kind /\ Sent[f].name # << >> THEN {Sent[f].name} ELSE {}
           p == Payload(d, parsed)
<1>1. /\ {q.tuple : q \in Transport(d)} = IF t = << >> THEN {} ELSE {t}
      /\ ExtractSNI(p) = Says("tls") /\ ExtractHost(p) = Says("http")
  BY DEF FramesRight, ReadRight
<1>2. parsed.tuple \in {q.tuple : q \in Transport(d)}
  OBVIOUS
<1>3. parsed.tuple = t /\ t # << >>
  BY <1>1, <1>2
<1>4. p = From(d, parsed.offset)
  BY DEF Payload
<1>5. d \in Seq(0..255) /\ Len(d) \in Nat
  BY FrameBytes
<1>6. parsed.offset \in Nat
  BY SMTT(30), Headers DEF TCP, UDP, UDP_HEADER_LEN
<1>7. ~(parsed.offset < Len(d)) => Len(p) = 0
  BY <1>4, <1>5, <1>6 DEF From
<1>8. Len(p) \in Nat
  BY <1>4, <1>5, <1>6 DEF From
<1>9. /\ ~(Len(p) > 5) => ExtractSNI(p) = {}
      /\ Len(p) = 0 => ExtractHost(p) = {}
  <2>1. ~(Len(p) > 5) => ~IsTLSClientHello(p)
    BY <1>8 DEF IsTLSClientHello
  <2>2. Len(p) = 0 => ~IsHTTPRequest(p)
    BY DEF IsHTTPRequest
  <2>3. QED BY <2>1, <2>2 DEF ExtractSNI, ExtractHost
<1> DEFINE port == t.dst_port
           generic == IF port = 443 THEN "HTTPS" ELSE "HTTP"
           looks == /\ flow.app \in {"Unknown", generic} /\ flow.sni = << >>
                    /\ t.protocol = TCP /\ port \in {443, 80}
           payload == {From(d, o) : o \in {e \in WorkingOffset(d) : e < Len(d)}}
<1>10. NamesIn(flow, d, parsed)
         = IF looks THEN UNION {IF port = 80 THEN ExtractHost(x)
                                ELSE IF Len(x) > 5 THEN ExtractSNI(x) ELSE {} : x \in payload}
           ELSE {}
  BY <1>3 DEF NamesIn
<1>11. CASE ~looks
  <2>1. ~(flow.app \in {"Unknown", generic} /\ flow.sni = << >> /\ Telling(t, f))
    BY <1>11 DEF Telling
  <2>2. QED BY <1>3, <1>10, <1>11, <2>1
<1>12. CASE looks
  <2>1. WorkingOffset(d) = {parsed.offset}
    BY SMTT(30), <1>3, <1>12, Offsets
  <2>2. payload = IF parsed.offset < Len(d) THEN {p} ELSE {}
    BY <1>4, <2>1
  <2> HIDE DEF p, payload, d
  <2>3. UNION {IF port = 80 THEN ExtractHost(x)
               ELSE IF Len(x) > 5 THEN ExtractSNI(x) ELSE {} : x \in payload}
          = IF port = 80 THEN ExtractHost(p) ELSE ExtractSNI(p)
    <3>1. CASE parsed.offset < Len(d)
      BY <1>9, <2>2, <3>1
    <3>2. CASE ~(parsed.offset < Len(d))
      BY <1>7, <1>9, <2>2, <3>2
    <3>3. QED BY <3>1, <3>2
  <2>4. NamesIn(flow, d, parsed) = IF port = 80 THEN Says("http") ELSE Says("tls")
    BY <1>1, <1>10, <1>12, <2>3
  <2>5. Telling(t, f) <=> /\ Sent[f].name # << >>
                          /\ Sent[f].kind = IF port = 80 THEN "http" ELSE "tls"
    BY <1>12 DEF Telling
  <2>6. QED BY <1>3, <1>12, <2>4, <2>5 DEF d
<1>13. QED BY <1>11, <1>12

-----------------------------------------------------------------------------
(* One packet of a flow that has no name yet: what the flow is afterwards. *)
LEMMA SeenNameless ==
  ASSUME NEW flow, NEW data, NEW parsed, NamesIn(flow, data, parsed) = {},
         flow = [app |-> flow.app, sni |-> << >>, blocked |-> flow.blocked],
         flow.app # "Unknown" => flow.app = Guess(parsed.tuple)
  PROVE  Guessed(Named(flow, data, parsed), parsed.tuple)
           = [app |-> Guess(parsed.tuple), sni |-> << >>, blocked |-> flow.blocked]
<1> DEFINE t == parsed.tuple
<1>1. Named(flow, data, parsed) = flow
  BY DEF Named
<1>2. CASE flow.app # "Unknown"
  <2>1. Guessed(flow, t) = flow
    BY <1>2 DEF Guessed
  <2>2. QED BY <1>1, <1>2, <2>1
<1>3. CASE flow.app = "Unknown"
  <2>1. Guessed(flow, t) = [app |-> Guess(t), sni |-> << >>, blocked |-> flow.blocked]
    BY <1>3 DEF Guessed, Guess, OnDNS
  <2>2. QED BY <1>1, <2>1
<1>4. QED BY <1>2, <1>3

LEMMA SeenNamed ==
  ASSUME NEW flow, NEW data, NEW parsed, NEW name, NamesIn(flow, data, parsed) = {name},
         flow = [app |-> flow.app, sni |-> << >>, blocked |-> flow.blocked],
         name # << >>
  PROVE  Guessed(Named(flow, data, parsed), parsed.tuple)
           = [app |-> SniToAppType(name), sni |-> name, blocked |-> flow.blocked]
<1> DEFINE seen == [app |-> SniToAppType(name), sni |-> name, blocked |-> flow.blocked]
<1>1. (CHOOSE n \in {name} : TRUE) = name /\ {name} # {}
  OBVIOUS
<1>2. Named(flow, data, parsed) = [flow EXCEPT !.sni = name, !.app = SniToAppType(name)]
  BY <1>1 DEF Named
<1>3. Named(flow, data, parsed) = seen
  BY <1>2
<1>4. SniToAppType(name) # "Unknown"
  BY NamesAreKnown
<1>5. Guessed(seen, parsed.tuple) = seen
  BY <1>4 DEF Guessed
<1>6. QED BY <1>3, <1>5

(* A flow is what the packets read so far say of it, and blocked for good  *)
(* from the first of them on that a rule is against.                       *)
FlowsRight ==
  /\ DOMAIN flows = {Sent[IdAt(i)].tuple : i \in Carried}
  /\ \A t \in DOMAIN flows :
       \E b \in BOOLEAN :
         /\ flows[t] = [app |-> Knowledge(t, pos).app, sni |-> Knowledge(t, pos).sni,
                        blocked |-> b]
         /\ b <=> Banned(t, pos)

LEMMA SeenRight ==
  ASSUME FramesRight, FlowsRight, NEW n, NEW u, Turn(n, u),
         NEW id \in Frames, id = input.records[n].data,
         NEW parsed \in Transport(Bytes[id])
  PROVE  /\ u # << >> /\ parsed.tuple = u
         /\ \E b \in BOOLEAN :
              /\ Guessed(Named(FlowOf(u), Bytes[id], parsed), u)
                   = [app |-> Knowledge(u, n)'.app, sni |-> Knowledge(u, n)'.sni, blocked |-> b]
              /\ b <=> Banned(u, pos)
<1> DEFINE data == Bytes[id]
           flow == FlowOf(u)
           name == Sent[id].name
           generic == IF u.dst_port = 443 THEN "HTTPS" ELSE "HTTP"
           telling == Telling(u, id)
<1>1. n \in Nat /\ pos \in Nat /\ IdAt(n) = id /\ n \notin 1..pos /\ u = Sent[id].tuple
  BY TurnSets DEF IdAt, Turn
<1>2. /\ parsed.tuple = u /\ u # << >>
      /\ \A fl : NamesIn(fl, data, parsed)
                   = IF fl.app \in {"Unknown", generic} /\ fl.sni = << >> /\ telling
                     THEN {name} ELSE {}
  <2>1. \A fl :
          LET t == Sent[id].tuple
              general == IF t.dst_port = 443 THEN "HTTPS" ELSE "HTTP"
          IN /\ parsed.tuple = t /\ t # << >>
             /\ NamesIn(fl, Bytes[id], parsed)
                  = IF fl.app \in {"Unknown", general} /\ fl.sni = << >> /\ Telling(t, id)
                    THEN {Sent[id].name} ELSE {}
    BY NamesFound
  <2>2. parsed.tuple = u /\ u # << >>
    BY <1>1, <2>1
  <2>3. ASSUME NEW fl
        PROVE  NamesIn(fl, data, parsed)
                 = IF fl.app \in {"Unknown", generic} /\ fl.sni = << >> /\ telling
                   THEN {name} ELSE {}
    <3>1. u = Sent[id].tuple
      BY <1>1
    <3> DEFINE general == IF Sent[id].tuple.dst_port = 443 THEN "HTTPS" ELSE "HTTP"
    <3>2. NamesIn(fl, data, parsed)
            = IF fl.app \in {"Unknown", general} /\ fl.sni = << >> /\ Telling(Sent[id].tuple, id)
              THEN {name} ELSE {}
      BY <2>1
    <3>3. general = generic /\ (Telling(Sent[id].tuple, id) <=> telling)
      BY <3>1, Zenon
    <3> HIDE DEF general, generic, telling, data, name
    <3>4. QED BY <3>2, <3>3
  <2>4. QED BY <2>2, <2>3
<1>3. /\ Naming(u) \subseteq 1..pos
      /\ Naming(u)' = Naming(u) \cup
           (IF telling /\ (OnDNS(u) => OfFlow(u) = {}) THEN {n} ELSE {})
  <2>1. /\ Naming(u) \subseteq 1..pos
        /\ Naming(u)' = Naming(u) \cup
             (IF /\ u # << >> /\ u = u /\ Telling(u, IdAt(n))
                 /\ OnDNS(u) => OfFlow(u) = {} THEN {n} ELSE {})
    BY TurnNaming
  <2>2. QED BY <1>1, <1>2, <2>1
<1>4. /\ NameBy(u, n)' = IF Naming(u) # {} THEN NameBy(u, pos)
                         ELSE IF n \in Naming(u)' THEN name ELSE << >>
      /\ Naming(u) # {} <=> NameBy(u, pos) # << >>
  BY <1>1, TurnNames
<1>5. Knowledge(u, n)' = [sni |-> NameBy(u, n)',
                          app |-> IF NameBy(u, n)' # << >> THEN SniToAppType(NameBy(u, n)')
                                  ELSE Guess(u)]
  BY KnownNext
<1>6. Knowledge(u, pos) = [sni |-> NameBy(u, pos),
                           app |-> IF NameBy(u, pos) # << >> THEN SniToAppType(NameBy(u, pos))
                                   ELSE Guess(u)]
  BY KnownIs
<1>7. u \in DOMAIN flows <=> OfFlow(u) # {}
  BY DEF FlowsRight, OfFlow
<1>8. telling => name # << >> /\ (u.dst_port = 443 \/ u.dst_port = 80)
  BY DEF Telling
<1> HIDE DEF telling, data, name
<1>9. CASE Naming(u) # {}
  <2>1. OfFlow(u) # {}
    BY <1>9 DEF Naming
  <2>2. PICK b \in BOOLEAN :
          /\ flow = [app |-> Knowledge(u, pos).app, sni |-> Knowledge(u, pos).sni, blocked |-> b]
          /\ b <=> Banned(u, pos)
    BY <1>7, <2>1 DEF FlowOf, FlowsRight
  <2>3. NameBy(u, n)' = NameBy(u, pos) /\ NameBy(u, pos) # << >>
    BY <1>4, <1>9
  <2> DEFINE known == NameBy(u, pos)
             now == [app |-> SniToAppType(known), sni |-> known, blocked |-> b]
  <2>4. /\ Knowledge(u, n)'.app = SniToAppType(known) /\ Knowledge(u, n)'.sni = known
        /\ flow = now
    BY <1>5, <1>6, <2>2, <2>3
  <2>5. known # << >> /\ SniToAppType(known) # "Unknown"
    BY <2>3, NamesAreKnown
  <2> HIDE DEF known
  <2>6. NamesIn(now, data, parsed) = {}
    BY <1>2, <2>5
  <2>7. Named(now, data, parsed) = now
    BY <2>6 DEF Named
  <2>8. Guessed(now, u) = now
    BY <2>5 DEF Guessed
  <2>9. QED BY <1>2, <2>2, <2>4, <2>7, <2>8 DEF data
<1>10. CASE Naming(u) = {}
  <2>1. \E a : \E b \in BOOLEAN :
          /\ flow = [app |-> a, sni |-> << >>, blocked |-> b]
          /\ b <=> Banned(u, pos)
          /\ IF OfFlow(u) = {} THEN a = "Unknown" ELSE a = Guess(u)
    <3>1. CASE OfFlow(u) = {}
      <4>1. flow = [app |-> "Unknown", sni |-> << >>, blocked |-> FALSE]
        BY <1>7, <3>1 DEF FlowOf, NewFlow
      <4>2. ~Banned(u, pos)
        BY <3>1 DEF Banned
      <4>3. QED BY <3>1, <4>1, <4>2
    <3>2. CASE OfFlow(u) # {}
      <4>1. PICK b \in BOOLEAN :
              /\ flow = [app |-> Knowledge(u, pos).app, sni |-> Knowledge(u, pos).sni,
                         blocked |-> b]
              /\ b <=> Banned(u, pos)
        BY <1>7, <3>2 DEF FlowOf, FlowsRight
      <4>2. NameBy(u, pos) = << >>
        BY <1>4, <1>10
      <4>3. Knowledge(u, pos).app = Guess(u) /\ Knowledge(u, pos).sni = << >>
        BY <1>6, <4>2
      <4>4. QED BY <3>2, <4>1, <4>3
    <3>3. QED BY <3>1, <3>2
  <2>2. PICK a : \E b \in BOOLEAN :
          /\ flow = [app |-> a, sni |-> << >>, blocked |-> b]
          /\ b <=> Banned(u, pos)
          /\ IF OfFlow(u) = {} THEN a = "Unknown" ELSE a = Guess(u)
    BY <2>1
  <2>3. PICK b \in BOOLEAN :
          /\ flow = [app |-> a, sni |-> << >>, blocked |-> b]
          /\ b <=> Banned(u, pos)
          /\ IF OfFlow(u) = {} THEN a = "Unknown" ELSE a = Guess(u)
    BY <2>2
  <2>4. NamesIn(flow, data, parsed)
          = IF flow.app \in {"Unknown", generic} /\ flow.sni = << >> /\ telling
            THEN {name} ELSE {}
    BY <1>2
  <2>5. n \in Naming(u)' <=> telling /\ (OnDNS(u) => OfFlow(u) = {})
    BY <1>1, <1>3, <1>10
  <2> HIDE DEF flow
  <2>6. telling => (flow.app \in {"Unknown", generic} <=> (OnDNS(u) => OfFlow(u) = {}))
    BY <1>8, <2>3 DEF Guess
  <2>7. NamesIn(flow, data, parsed) = IF n \in Naming(u)' THEN {name} ELSE {}
    BY <2>3, <2>4, <2>5, <2>6
  <2>8. NameBy(u, n)' = IF n \in Naming(u)' THEN name ELSE << >>
    BY <1>4, <1>10
  <2>9. /\ flow = [app |-> flow.app, sni |-> << >>, blocked |-> flow.blocked]
        /\ flow.app # "Unknown" => flow.app = Guess(parsed.tuple)
        /\ flow.blocked = b
    BY <1>2, <2>3
  <2> DEFINE seen == Guessed(Named(flow, data, parsed), parsed.tuple)
  <2>10. seen = [app |-> Knowledge(u, n)'.app, sni |-> Knowledge(u, n)'.sni,
                 blocked |-> flow.blocked]
    <3>1. CASE n \in Naming(u)'
      <4>1. name # << >> /\ NamesIn(flow, data, parsed) = {name}
        BY <1>8, <2>5, <2>7, <3>1
      <4>2. seen = [app |-> SniToAppType(name), sni |-> name, blocked |-> flow.blocked]
        BY <2>9, <4>1, SeenNamed
      <4>3. Knowledge(u, n)'.app = SniToAppType(name) /\ Knowledge(u, n)'.sni = name
        BY <1>5, <2>8, <3>1, <4>1
      <4>4. QED BY <4>2, <4>3
    <3>2. CASE n \notin Naming(u)'
      <4>1. NamesIn(flow, data, parsed) = {}
        BY <2>7, <3>2
      <4>2. seen = [app |-> Guess(parsed.tuple), sni |-> << >>, blocked |-> flow.blocked]
        BY <2>9, <4>1, SeenNameless
      <4>3. Knowledge(u, n)'.app = Guess(u) /\ Knowledge(u, n)'.sni = << >>
        BY <1>5, <2>8, <3>2
      <4>4. QED BY <1>2, <4>2, <4>3
    <3>3. QED BY <3>1, <3>2
  <2>11. Guessed(Named(FlowOf(u), Bytes[id], parsed), u)
           = [app |-> Knowledge(u, n)'.app, sni |-> Knowledge(u, n)'.sni, blocked |-> b]
    BY <1>2, <2>9, <2>10 DEF flow, data
  <2>12. QED BY <1>2, <2>3, <2>11
<1>11. QED BY <1>2, <1>9, <1>10

LEMMA InspectedRight ==
  ASSUME FramesRight, FlowsRight, NEW n, NEW u, Turn(n, u),
         NEW id \in Frames, id = input.records[n].data,
         NEW parsed \in Transport(Bytes[id])
  PROVE  /\ u # << >> /\ parsed.tuple = u
         /\ \E b \in BOOLEAN :
              /\ Inspected(FlowOf(u), Bytes[id], parsed)
                   = [app |-> Knowledge(u, n)'.app, sni |-> Knowledge(u, n)'.sni, blocked |-> b]
              /\ b <=> Banned(u, n)'
<1> DEFINE app == Knowledge(u, n)'.app
           sni == Knowledge(u, n)'.sni
           seen == Guessed(Named(FlowOf(u), Bytes[id], parsed), u)
<1>1. PICK b \in BOOLEAN :
        /\ u # << >> /\ parsed.tuple = u
        /\ seen = [app |-> app, sni |-> sni, blocked |-> b]
        /\ b <=> Banned(u, pos)
  BY SeenRight
<1>2. Judged(u, n)' <=> IsBlocked(u.src_ip, app, sni)
  BY DEF Judged, IsBlocked, Turn
<1>3. Banned(u, n)' <=> Banned(u, pos) \/ Judged(u, n)'
  BY <1>1, TurnJudged
<1> DEFINE c == b \/ IsBlocked(u.src_ip, app, sni)
<1>4. c \in BOOLEAN
  OBVIOUS
<1>5. c <=> Banned(u, n)'
  BY <1>1, <1>2, <1>3
<1>6. Inspected(FlowOf(u), Bytes[id], parsed)
        = [seen EXCEPT !.blocked = @ \/ IsBlocked(u.src_ip, seen.app, seen.sni)]
  BY <1>1 DEF Inspected
<1> HIDE DEF seen, app, sni
<1>7. seen.app = app /\ seen.sni = sni /\ seen.blocked = b
  BY <1>1
<1>8. Inspected(FlowOf(u), Bytes[id], parsed) = [seen EXCEPT !.blocked = c]
  BY <1>6, <1>7
<1> HIDE DEF c
<1>9. [seen EXCEPT !.blocked = c] = [app |-> app, sni |-> sni, blocked |-> c]
  BY <1>1
<1>10. QED BY <1>1, <1>4, <1>5, <1>8, <1>9 DEF app, sni

LEMMA CondemnedTurn ==
  ASSUME NEW n, NEW u, Turn(n, u)
  PROVE  /\ \A i \in 1..pos : Condemned(i)' <=> Condemned(i)
         /\ u # << >> => (Condemned(n)' <=> Banned(u, n)')
         /\ Survivors \subseteq 1..pos
         /\ Survivors' = Survivors \cup (IF u # << >> /\ ~Banned(u, n)' THEN {n} ELSE {})
<1>1. /\ n \in Nat /\ pos \in Nat /\ n = pos + 1 /\ n \notin 1..pos
      /\ Carried \subseteq 1..pos
      /\ \A i \in 1..n : IdAt(i)' = IdAt(i)
      /\ Carried' = Carried \cup (IF u # << >> THEN {n} ELSE {})
  BY TurnSets
<1>2. Sent[IdAt(n)].tuple = u
  BY DEF Turn, IdAt
<1>3. ASSUME NEW i \in 1..n, NEW t, t = Sent[IdAt(i)].tuple
      PROVE  Condemned(i)' <=> Banned(t, i)'
  <2>1. Sent[IdAt(i)'].tuple = t
    BY <1>1, <1>3
  <2>2. QED BY <2>1 DEF Condemned, Banned, Judged
<1>4. ASSUME NEW i \in 1..pos PROVE Condemned(i)' <=> Condemned(i)
  <2>1. i \in 1..n
    BY <1>1
  <2>2. PICK t : t = Sent[IdAt(i)].tuple
    OBVIOUS
  <2>3. Banned(t, i)' <=> Banned(t, i)
    BY TurnJudged
  <2>4. Condemned(i)' <=> Banned(t, i)'
    BY <1>3, <2>1, <2>2
  <2>5. Condemned(i) <=> Banned(t, i)
    BY <2>2, CondemnedIs
  <2>6. QED BY <2>3, <2>4, <2>5
<1>5. Condemned(n)' <=> Banned(u, n)'
  <2>1. n \in 1..n
    BY <1>1
  <2>2. QED BY <1>2, <1>3, <2>1
<1>6. Survivors = {i \in Carried : ~Condemned(i)} /\ Survivors' = {i \in Carried' : ~Condemned(i)'}
  BY DEF Survivors
<1>7. QED BY <1>1, <1>4, <1>5, <1>6

LEMMA FlowsStep ==
  ASSUME FramesRight, FlowsRight, NEW n, NEW u, Turn(n, u),
         NEW id \in Frames, id = input.records[n].data,
         IF Transport(Bytes[id]) = {} THEN flows' = flows
         ELSE \E parsed \in Transport(Bytes[id]) :
                flows' = [t \in DOMAIN flows \cup {parsed.tuple} |->
                            IF t = parsed.tuple
                            THEN Inspected(FlowOf(parsed.tuple), Bytes[id], parsed)
                            ELSE flows[t]]
  PROVE  FlowsRight'
<1>1. /\ n \in Nat /\ pos \in Nat /\ n = pos + 1 /\ n \notin 1..pos /\ pos' = n
      /\ Carried \subseteq 1..pos
      /\ \A i \in 1..n : IdAt(i)' = IdAt(i)
      /\ Carried' = Carried \cup (IF u # << >> THEN {n} ELSE {})
      /\ u = Sent[id].tuple /\ IdAt(n) = id
  BY TurnSets DEF Turn, IdAt
<1>2. {parsed.tuple : parsed \in Transport(Bytes[id])} = IF u = << >> THEN {} ELSE {u}
  BY <1>1 DEF FramesRight, ReadRight
<1>3. {Sent[IdAt(i)].tuple : i \in Carried}' = {Sent[IdAt(i)].tuple : i \in Carried'}
  <2>1. \A i \in Carried' : i \in 1..n
    <3>1. n \in 1..n /\ 1..pos \subseteq 1..n
      BY <1>1
    <3>2. Carried' \subseteq Carried \cup {n}
      BY <1>1
    <3>3. QED BY <1>1, <3>1, <3>2
  <2>2. \A i \in Carried' : Sent[IdAt(i)'].tuple = Sent[IdAt(i)].tuple
    BY <1>1, <2>1
  <2>3. QED BY <2>2
<1>4. ASSUME NEW t, ~(u # << >> /\ t = u), t \in DOMAIN flows,
             t \in DOMAIN flows', flows'[t] = flows[t]
      PROVE  \E b \in BOOLEAN :
               /\ flows'[t] = [app |-> Knowledge(t, n)'.app, sni |-> Knowledge(t, n)'.sni,
                               blocked |-> b]
               /\ b <=> Banned(t, n)'
  <2>1. Knowledge(t, n)' = Knowledge(t, pos) /\ (Banned(t, n)' <=> Banned(t, pos))
    BY <1>4, TurnJudged
  <2>2. PICK b \in BOOLEAN :
         /\ flows[t] = [app |-> Knowledge(t, pos).app, sni |-> Knowledge(t, pos).sni,
                        blocked |-> b]
         /\ b <=> Banned(t, pos)
    BY <1>4 DEF FlowsRight
  <2>3. QED BY <1>4, <2>1, <2>2
<1>5. CASE u = << >>
  <2>1. Transport(Bytes[id]) = {}
    <3> DEFINE T == Transport(Bytes[id])
    <3>1. \A parsed \in T : parsed.tuple \in {p.tuple : p \in T}
      OBVIOUS
    <3>2. {p.tuple : p \in T} = {}
      BY <1>2, <1>5
    <3> HIDE DEF T
    <3>3. T = {}
      BY <3>1, <3>2
    <3>4. QED BY <3>3 DEF T
  <2>2. flows' = flows
    BY <2>1
  <2>3. DOMAIN flows' = {Sent[IdAt(i)].tuple : i \in Carried}'
    BY <1>1, <1>3, <1>5, <2>2 DEF FlowsRight
  <2>4. QED BY <1>1, <1>4, <1>5, <2>2, <2>3 DEF FlowsRight
<1>6. CASE u # << >>
  <2>1. PICK parsed \in Transport(Bytes[id]) :
          flows' = [t \in DOMAIN flows \cup {parsed.tuple} |->
                      IF t = parsed.tuple
                      THEN Inspected(FlowOf(parsed.tuple), Bytes[id], parsed)
                      ELSE flows[t]]
    BY <1>2, <1>6
  <2>2. PICK b \in BOOLEAN :
          /\ parsed.tuple = u
          /\ Inspected(FlowOf(u), Bytes[id], parsed)
               = [app |-> Knowledge(u, n)'.app, sni |-> Knowledge(u, n)'.sni, blocked |-> b]
          /\ b <=> Banned(u, n)'
    BY InspectedRight
  <2> DEFINE flow == Inspected(FlowOf(u), Bytes[id], parsed)
  <2>3. flows' = [t \in DOMAIN flows \cup {u} |-> IF t = u THEN flow ELSE flows[t]]
    BY <2>1, <2>2
  <2> HIDE DEF flow
  <2>4. /\ DOMAIN flows' = DOMAIN flows \cup {u}
        /\ flows'[u] = flow
        /\ \A t \in DOMAIN flows : t # u => flows'[t] = flows[t]
    BY <2>3
  <2>5. DOMAIN flows' = {Sent[IdAt(i)].tuple : i \in Carried}'
    <3>1. {Sent[IdAt(i)].tuple : i \in Carried'}
            = {Sent[IdAt(i)].tuple : i \in Carried} \cup {u}
      <4>1. Carried' = Carried \cup {n} /\ Sent[IdAt(n)].tuple = u
        BY <1>1, <1>6
      <4>2. QED BY <4>1
    <3>2. QED BY <1>3, <2>4, <3>1 DEF FlowsRight
  <2>6. ASSUME NEW t \in DOMAIN flows'
        PROVE  \E c \in BOOLEAN :
                 /\ flows'[t] = [app |-> Knowledge(t, n)'.app, sni |-> Knowledge(t, n)'.sni,
                                 blocked |-> c]
                 /\ c <=> Banned(t, n)'
    <3>1. CASE t = u
      BY <2>2, <2>4, <3>1 DEF flow
    <3>2. CASE t # u
      BY <1>4, <2>4, <3>2
    <3>3. QED BY <3>1, <3>2
  <2>7. QED BY <1>1, <2>5, <2>6 DEF FlowsRight
<1>7. QED BY <1>5, <1>6

(* Reading a file yields the data of the records before the first one that *)
(* ends the reading.                                                       *)
LEMMA ReadsUpTo ==
  ASSUME NEW pcap, Opens(pcap), Len(pcap.records) \in Nat, NEW n \in 0..Len(pcap.records),
         \A m \in 0..(n - 1) : ReadNextPacket(pcap, m) # {},
         ReadNextPacket(pcap, n) = {}
  PROVE  PacketsIn(pcap) = [k \in 1..n |-> pcap.records[k].data]
<1> DEFINE L == Len(pcap.records)
           readable == {k \in 0..L : \A m \in 0..(k - 1) : ReadNextPacket(pcap, m) # {}}
           last == CHOOSE k \in readable : \A m \in readable : m <= k
<1>1. n \in readable
  OBVIOUS
<1>2. ASSUME NEW m \in readable PROVE m <= n
  <2>1. m \in Nat /\ n \in Nat
    OBVIOUS
  <2>2. ~(n \in 0..(m - 1))
    OBVIOUS
  <2>3. QED BY <2>1, <2>2
<1>3. \A m \in readable : m \in Nat /\ n \in Nat
  OBVIOUS
<1>4. PacketsIn(pcap) = [k \in 1..last |-> pcap.records[k].data]
  BY DEF PacketsIn
<1> HIDE DEF readable
<1>5. last \in readable /\ \A m \in readable : m <= last
  BY <1>1, <1>2
<1> HIDE DEF last
<1>6. last = n
  BY <1>1, <1>2, <1>3, <1>5
<1>7. QED BY <1>4, <1>6

(* The first n records are those of packets the loop has read, written out *)
(* as they were: they can be read back.                                    *)
LEMMA ReadsBack ==
  ASSUME Reading, ~NeedsByteSwap(input), NEW pcap, Opens(pcap),
         pcap.magic = input.magic, pcap.snaplen = GlobalHeader(input).snaplen,
         Len(pcap.records) \in Nat, NEW n \in 0..Len(pcap.records),
         \A k \in 1..n : \E i \in Read : pcap.records[k] = Written(IdAt(i)),
         ReadNextPacket(pcap, n) = {}
  PROVE  PacketsIn(pcap) = [k \in 1..n |-> pcap.records[k].data]
<1>1. ~NeedsByteSwap(pcap)
  BY DEF NeedsByteSwap
<1>2. n \in Nat
  OBVIOUS
<1>3. ASSUME NEW m \in 0..(n - 1) PROVE ReadNextPacket(pcap, m) # {}
  <2>1. m + 1 \in 1..n /\ ~(m >= Len(pcap.records))
    BY <1>2
  <2>2. PICK i \in Read : pcap.records[m + 1] = Written(IdAt(i))
    BY <2>1
  <2> DEFINE id == IdAt(i)
             rec == input.records[i]
  <2>3. /\ input \in Captures /\ pos \in 0..Len(input.records)
        /\ Len(input.records) \in Nat /\ ReadNextPacket(input, i - 1) = {IdAt(i)}
    BY <2>2, Captured DEF Reading
  <2>4. i - 1 \in Nat /\ (i - 1) + 1 = i /\ i \in 1..Len(input.records)
    BY <2>2, <2>3 DEF Read
  <2>5. /\ rec.whole = "all"
        /\ MaybeSwap32(input, rec.inclLen) <= GlobalHeader(input).snaplen
        /\ MaybeSwap32(input, rec.inclLen) <= MAX_PACKET_LENGTH
    <3>1. PICK k \in Nat : k = i - 1
      BY <2>4
    <3>2. IdAt(i) \in ReadNextPacket(input, k)
      BY <2>3, <3>1
    <3>3. k + 1 = i
      BY <2>4, <3>1
    <3>4. QED BY <2>3, <3>2, <3>3, ReadOne
  <2>6. MaybeSwap32(input, rec.inclLen) = Len(Bytes[id])
    BY <2>3, <2>4, <2>5, Captured DEF IdAt
  <2>7. Len(Bytes[id]) <= pcap.snaplen /\ Len(Bytes[id]) <= MAX_PACKET_LENGTH
    BY <2>5, <2>6
  <2> DEFINE out == pcap.records[m + 1]
  <2>8. out.whole = "all" /\ MaybeSwap32(pcap, out.inclLen) = Len(Bytes[id])
    BY <1>1, <2>2 DEF Written, MaybeSwap32
  <2>9. GlobalHeader(pcap).snaplen = pcap.snaplen
    BY <1>1 DEF GlobalHeader, MaybeSwap32
  <2> HIDE DEF out, id
  <2>10. ReadNextPacket(pcap, m) = {out.data}
    BY <2>1, <2>7, <2>8, <2>9 DEF ReadNextPacket, out
  <2>11. QED BY <2>10
<1>4. QED BY <1>3, ReadsUpTo

LEMMA SurvivorsCounted ==
  ASSUME Reading, NEW list \in Seq(Nat), Enumerates(list, Survivors)
  PROVE  /\ Cardinality(Survivors) = Len(list)
         /\ list \in [1..Len(list) -> Survivors]
         /\ \A k \in 1..Len(list) : list[k] \in Survivors /\ list[k] \in Read
<1> DEFINE L == Len(list)
<1>1. L \in Nat /\ DOMAIN list = 1..L /\ \A k \in 1..L : list[k] \in Nat
  OBVIOUS
<1>2. \A k \in 1..L : list[k] \in Survivors
  BY <1>1 DEF Enumerates
<1>3. list \in [1..L -> Survivors]
  BY <1>1, <1>2
<1>4. Survivors \subseteq Read
  BY DEF Survivors, Carried
<1>5. \A j, k \in 1..L : list[j] = list[k] => j = k
  <2>1. \A j, k \in 1..L : j < k => list[j] < list[k]
    BY <1>1 DEF Enumerates
  <2>2. \A j, k \in 1..L : j < k \/ k < j \/ j = k
    BY <1>1
  <2>3. \A j, k \in 1..L : ~(list[j] < list[k] /\ list[j] = list[k])
    BY <1>1
  <2>4. QED BY <2>1, <2>2, <2>3
<1>6. \A s \in Survivors : \E k \in 1..L : list[k] = s
  BY <1>1 DEF Enumerates
<1> HIDE DEF L
<1>7. list \in Bijection(1..L, Survivors)
  BY <1>3, <1>5, <1>6 DEF Bijection, Injection, Surjection, IsInjective
<1>8. IsFiniteSet(1..L) /\ Cardinality(1..L) = L
  BY <1>1, FS_Interval
<1>9. Cardinality(Survivors) = Cardinality(1..L)
  BY <1>7, <1>8, FS_Bijection DEF ExistsBijection
<1>10. QED BY <1>2, <1>3, <1>4, <1>8, <1>9 DEF L

(* The output holds the packets no rule condemned, in order.               *)
Copied ==
  \E list \in Seq(Nat) :
    /\ Enumerates(list, Survivors)
    /\ output = [magic |-> input.magic, snaplen |-> GlobalHeader(input).snaplen,
                 records |-> [k \in 1..Len(list) |-> Written(IdAt(list[k]))]]

OutputRight ==
  /\ phase \in {"start", "failed"} => output = NoFile
  /\ phase \in {"loop", "done"} => Copied
  /\ phase = "dead" => SurvivorsWritten

LEMMA CopiedWritten ==
  ASSUME Reading, OutputRight, phase # "dead"
  PROVE  SurvivorsWritten
<1>1. CASE phase \in {"start", "failed"}
  <2>1. output = NoFile
    BY <1>1 DEF OutputRight
  <2>2. ~Opens(output)
    BY <2>1 DEF Opens, NoFile, NativeMagics, SwappedMagics
  <2>3. QED BY <2>2 DEF SurvivorsWritten
<1>2. CASE phase \in {"loop", "done"}
  <2>1. Copied
    BY <1>2 DEF OutputRight
  <2>2. PICK list \in Seq(Nat) :
          /\ Enumerates(list, Survivors)
          /\ output = [magic |-> input.magic, snaplen |-> GlobalHeader(input).snaplen,
                       records |-> [k \in 1..Len(list) |-> Written(IdAt(list[k]))]]
    BY <2>1 DEF Copied
  <2>3. /\ Cardinality(Survivors) = Len(list)
        /\ list \in [1..Len(list) -> Survivors] /\ DOMAIN list = 1..Len(list)
        /\ Len(list) \in Nat
        /\ \A k \in 1..Len(list) : list[k] \in Read
    BY <2>2, SurvivorsCounted
  <2>4. Len(output.records) = Len(list)
    BY <2>2, <2>3
  <2>5. SUFFICES ASSUME Opens(output), ~NeedsByteSwap(input)
                 PROVE  PacketsIn(output) = [k \in DOMAIN list |-> IdAt(list[k])]
    BY <1>2, <2>2, <2>3 DEF SurvivorsWritten
  <2> DEFINE n == Len(list)
  <2> HIDE DEF n
  <2>6. n \in 0..Len(output.records) /\ n >= Len(output.records) /\ Len(output.records) \in Nat
    BY <2>3, <2>4 DEF n
  <2>7. ReadNextPacket(output, n) = {}
    BY <2>6 DEF ReadNextPacket
  <2>8. \A k \in 1..n : list[k] \in Read /\ output.records[k] = Written(IdAt(list[k]))
    BY <2>2, <2>3 DEF n
  <2>9. output.magic = input.magic /\ output.snaplen = GlobalHeader(input).snaplen
    BY <2>2
  <2>10. PacketsIn(output) = [k \in 1..n |-> output.records[k].data]
    BY SMTT(30), <2>5, <2>6, <2>7, <2>8, <2>9, ReadsBack
  <2>11. ASSUME NEW k \in 1..n PROVE output.records[k].data = IdAt(list[k])
    <3>1. output.records[k] = Written(IdAt(list[k]))
      BY <2>8
    <3>2. QED BY <3>1 DEF Written
  <2>12. QED BY <2>3, <2>10, <2>11 DEF n
<1>3. QED BY <1>1, <1>2 DEF Reading

LEMMA SameSurvivors ==
  UNCHANGED <<input, pos, rules>> => Survivors' = Survivors /\ \A i : IdAt(i)' = IdAt(i)
BY DEF Survivors, Carried, Read, IdAt, Condemned, OfFlow, Knowledge, NameBy, Naming, IsBlocked

(* Cut off in the middle of a record, the output is an initial segment.    *)
LEMMA DieStep == Reading /\ OutputRight /\ Die => SurvivorsWritten'
<1> SUFFICES ASSUME Reading, OutputRight, Die PROVE SurvivorsWritten'
  OBVIOUS
<1>1. /\ phase = "loop" /\ phase' = "dead"
      /\ input' = input /\ pos' = pos /\ rules' = rules
  BY DEF Die
<1>2. Copied
  BY <1>1 DEF OutputRight
<1>3. PICK list \in Seq(Nat) :
        /\ Enumerates(list, Survivors)
        /\ output = [magic |-> input.magic, snaplen |-> GlobalHeader(input).snaplen,
                     records |-> [k \in 1..Len(list) |-> Written(IdAt(list[k]))]]
  BY <1>2 DEF Copied
<1> DEFINE L == Len(list)
           recs == output.records
<1>4. /\ Cardinality(Survivors) = L /\ list \in [1..L -> Survivors]
      /\ DOMAIN list = 1..L /\ L \in Nat
      /\ \A k \in 1..L : list[k] \in Read
  BY <1>3, SurvivorsCounted
<1>5. Len(recs) = L /\ DOMAIN recs = 1..L /\ \A k \in 1..L : recs[k] = Written(IdAt(list[k]))
  BY <1>3, <1>4
<1>6. PICK n \in 0..Len(recs) :
        \E tail \in {<< >>} \cup
             (IF n = Len(recs) THEN {}
              ELSE {<<[recs[n + 1] EXCEPT !.whole = w]>> : w \in {"header", "data"}}) :
          output' = [output EXCEPT !.records = SubSeq(@, 1, n) \o tail]
  BY DEF Die
<1>7. PICK tail \in {<< >>} \cup
             (IF n = Len(recs) THEN {}
              ELSE {<<[recs[n + 1] EXCEPT !.whole = w]>> : w \in {"header", "data"}}) :
          output' = [output EXCEPT !.records = SubSeq(@, 1, n) \o tail]
  BY <1>6
<1> DEFINE cut == [k \in 1..n |-> Written(IdAt(list[k]))]
<1>8. n \in 0..L /\ n \in Nat
  BY <1>4, <1>5, <1>6
<1>9. SubSeq(recs, 1, n) = cut
  BY <1>3, <1>4, <1>5, <1>8
<1> SUFFICES ASSUME Opens(output'), ~NeedsByteSwap(input)
             PROVE  IsPrefix(PacketsIn(output'), [k \in 1..L |-> IdAt(list[k])])
  <2>1. Survivors' = Survivors /\ \A i : IdAt(i)' = IdAt(i)
    BY <1>1, SameSurvivors
  <2>2. SurvivorsWritten'
          <=> (Opens(output') /\ ~NeedsByteSwap(input') =>
                 \E l \in [1..Cardinality(Survivors') -> Survivors'] :
                   /\ Enumerates(l, Survivors')
                   /\ \E expected \in {[k \in DOMAIN l |-> IdAt(l[k])']} :
                        IF phase' = "dead" THEN IsPrefix(PacketsIn(output'), expected)
                        ELSE PacketsIn(output') = expected)
    BY DEF SurvivorsWritten
  <2>3. QED BY <1>1, <1>3, <1>4, <2>1, <2>2
<1>10. PICK pcap : pcap = output'
  OBVIOUS
<1>11. pcap = [magic |-> input.magic, snaplen |-> GlobalHeader(input).snaplen,
               records |-> cut \o tail]
  BY <1>3, <1>7, <1>9, <1>10
<1>12. /\ Len(pcap.records) \in Nat /\ n \in 0..Len(pcap.records)
       /\ \A k \in 1..n : pcap.records[k] = Written(IdAt(list[k]))
       /\ ReadNextPacket(pcap, n) = {}
  <2>0. pcap.records = cut \o tail
    BY <1>11
  <2>1. /\ cut \in Seq({Written(IdAt(list[k])) : k \in 1..n}) /\ Len(cut) = n
        /\ \A k \in 1..n : cut[k] = Written(IdAt(list[k]))
    BY <1>8
  <2> HIDE DEF cut
  <2>2. CASE tail = << >>
    <3>1. cut \o tail = cut
      BY <2>1, <2>2
    <3>2. n >= Len(pcap.records)
      BY <1>8, <1>11, <2>1, <3>1
    <3>3. ReadNextPacket(pcap, n) = {}
      BY <3>2 DEF ReadNextPacket
    <3>4. QED BY <1>8, <2>0, <2>1, <3>1, <3>3
  <2>3. CASE tail # << >>
    <3>1. n # L /\ n + 1 \in 1..L
      BY <1>5, <1>7, <1>8, <2>3
    <3>2. PICK w \in {"header", "data"} : tail = <<[recs[n + 1] EXCEPT !.whole = w]>>
      BY <1>5, <1>7, <2>3, <3>1
    <3>3. recs[n + 1] = Written(IdAt(list[n + 1]))
      BY <1>5, <3>1
    <3> DEFINE part == [recs[n + 1] EXCEPT !.whole = w]
    <3>4. part.whole = w /\ part.whole # "all"
      BY <3>2, <3>3 DEF Written
    <3> HIDE DEF part, recs
    <3>5. tail = <<part>>
      BY <3>2 DEF part
    <3>6. /\ Len(cut \o tail) = n + 1 /\ (cut \o tail)[n + 1] = part
          /\ \A k \in 1..n : (cut \o tail)[k] = cut[k]
      BY <1>8, <2>1, <3>5
    <3>7. ReadNextPacket(pcap, n) = {}
      BY <2>0, <3>4, <3>6 DEF ReadNextPacket
    <3>8. \A k \in 1..n : pcap.records[k] = Written(IdAt(list[k]))
      BY <2>0, <2>1, <3>6
    <3>9. Len(pcap.records) = n + 1
      BY <2>0, <3>6
    <3>10. QED BY <1>8, <3>7, <3>8, <3>9
  <2>4. QED BY <2>2, <2>3
<1> HIDE DEF cut
<1>13. /\ Opens(pcap) /\ pcap.magic = input.magic /\ pcap.snaplen = GlobalHeader(input).snaplen
  BY <1>10, <1>11
<1>14. \A k \in 1..n : \E i \in Read : pcap.records[k] = Written(IdAt(i))
  BY <1>4, <1>8, <1>12
<1>15. PacketsIn(pcap) = [k \in 1..n |-> pcap.records[k].data]
  BY <1>12, <1>13, <1>14, ReadsBack
<1>16. ASSUME NEW k \in 1..n PROVE pcap.records[k].data = IdAt(list[k])
  <2>1. pcap.records[k] = Written(IdAt(list[k]))
    BY <1>12
  <2>2. QED BY <2>1 DEF Written
<1>17. PacketsIn(pcap) = [k \in 1..n |-> IdAt(list[k])]
  BY <1>15, <1>16
<1>18. IsPrefix([k \in 1..n |-> IdAt(list[k])], [k \in 1..L |-> IdAt(list[k])])
  BY <1>4, <1>8 DEF IsPrefix
<1>19. QED BY <1>10, <1>17, <1>18

LEMMA StillCopied == Copied /\ UNCHANGED <<input, pos, rules, output>> => Copied'
<1> SUFFICES ASSUME Copied, UNCHANGED <<input, pos, rules, output>> PROVE Copied'
  OBVIOUS
<1>1. Survivors' = Survivors /\ \A i : IdAt(i)' = IdAt(i)
  BY SameSurvivors
<1>2. PICK list \in Seq(Nat) :
        /\ Enumerates(list, Survivors)
        /\ output = [magic |-> input.magic, snaplen |-> GlobalHeader(input).snaplen,
                     records |-> [k \in 1..Len(list) |-> Written(IdAt(list[k]))]]
  BY DEF Copied
<1>3. /\ Enumerates(list, Survivors')
      /\ output' = [magic |-> input'.magic, snaplen |-> GlobalHeader(input').snaplen,
                    records |-> [k \in 1..Len(list) |-> Written(IdAt(list[k])')]]
  BY <1>1, <1>2
<1>4. QED BY <1>3 DEF Copied, Written

(* The packet of this turn is the last one not condemned, or is condemned. *)
LEMMA CopiedStep ==
  ASSUME Copied, NEW n, NEW u, Turn(n, u), NEW id, id = input.records[n].data,
         \/ /\ u # << >> /\ ~Banned(u, n)'
            /\ output' = [output EXCEPT !.records = Append(@, Written(id))]
         \/ ~(u # << >> /\ ~Banned(u, n)') /\ output' = output
  PROVE  Copied'
<1>1. PICK list \in Seq(Nat) :
        /\ Enumerates(list, Survivors)
        /\ output = [magic |-> input.magic, snaplen |-> GlobalHeader(input).snaplen,
                     records |-> [k \in 1..Len(list) |-> Written(IdAt(list[k]))]]
  BY DEF Copied
<1>2. /\ n \in Nat /\ pos \in Nat /\ n = pos + 1 /\ n \notin 1..pos
      /\ input' = input /\ IdAt(n)' = id /\ \A i : IdAt(i)' = IdAt(i)
  BY TurnSets DEF Turn, IdAt
<1>3. /\ Survivors \subseteq 1..pos
      /\ Survivors' = Survivors \cup (IF u # << >> /\ ~Banned(u, n)' THEN {n} ELSE {})
  BY CondemnedTurn
<1>4. /\ Len(list) \in Nat /\ DOMAIN list = 1..Len(list)
      /\ \A k \in 1..Len(list) : list[k] \in Survivors /\ list[k] \in 1..pos
  BY <1>1, <1>3 DEF Enumerates
<1>5. CASE ~(u # << >> /\ ~Banned(u, n)')
  <2>1. Survivors' = Survivors /\ output' = output
    BY <1>3, <1>5
  <2>2. /\ Enumerates(list, Survivors')
        /\ output' = [magic |-> input'.magic, snaplen |-> GlobalHeader(input').snaplen,
                      records |-> [k \in 1..Len(list) |-> Written(IdAt(list[k])')]]
    BY <1>1, <1>2, <2>1
  <2>3. QED BY <2>2 DEF Copied, Written
<1>6. CASE u # << >> /\ ~Banned(u, n)'
  <2> DEFINE more == Append(list, n)
             recs == [k \in 1..Len(list) |-> Written(IdAt(list[k]))]
             longer == [k \in 1..(Len(list) + 1) |-> Written(IdAt(more[k])')]
  <2>1. Survivors' = Survivors \cup {n}
    BY <1>3, <1>6
  <2>2. /\ more \in Seq(Nat) /\ Len(more) = Len(list) + 1 /\ DOMAIN more = 1..(Len(list) + 1)
        /\ more[Len(list) + 1] = n
        /\ \A k \in 1..Len(list) : more[k] = list[k]
    BY <1>2, <1>4
  <2> HIDE DEF more
  <2>3. \A k \in 1..(Len(list) + 1) : k \in 1..Len(list) \/ k = Len(list) + 1
    BY <1>4
  <2>4. Enumerates(more, Survivors')
    <3>1. {more[k] : k \in DOMAIN more} = Survivors'
      <4>1. {list[k] : k \in DOMAIN list} = Survivors
        BY <1>1 DEF Enumerates
      <4>2. \A k \in DOMAIN more : more[k] \in Survivors'
        BY <1>4, <2>1, <2>2, <2>3
      <4>3. ASSUME NEW i \in Survivors' PROVE \E k \in DOMAIN more : more[k] = i
        <5>1. CASE i = n
          <6>1. Len(list) + 1 \in DOMAIN more
            BY <1>4, <2>2
          <6>2. QED BY <2>2, <5>1, <6>1
        <5>2. CASE i # n
          <6>1. PICK k \in DOMAIN list : list[k] = i
            BY <2>1, <4>1, <5>2
          <6>2. k \in DOMAIN more /\ more[k] = i
            BY <1>4, <2>2, <6>1
          <6>3. QED BY <6>2
        <5>3. QED BY <5>1, <5>2
      <4>4. QED BY <4>2, <4>3
    <3>2. ASSUME NEW j \in DOMAIN more, NEW k \in DOMAIN more, j < k
          PROVE  more[j] < more[k]
      <4>1. j \in 1..Len(list)
        BY <1>4, <2>2, <3>2
      <4>2. CASE k \in 1..Len(list)
        BY <1>1, <1>4, <2>2, <3>2, <4>1, <4>2 DEF Enumerates
      <4>3. CASE k = Len(list) + 1
        <5>1. more[k] = n /\ more[j] \in 1..pos
          BY <1>4, <2>2, <4>1, <4>3
        <5>2. QED BY <1>2, <5>1
      <4>4. QED BY <2>2, <2>3, <4>2, <4>3
    <3>3. QED BY <3>1, <3>2 DEF Enumerates
  <2>5. output' = [magic |-> input.magic, snaplen |-> GlobalHeader(input).snaplen,
                   records |-> Append(recs, Written(id))]
    BY <1>1, <1>6
  <2>6. Append(recs, Written(id)) = longer
    <3>1. recs \in Seq({Written(IdAt(list[k])) : k \in 1..Len(list)}) /\ Len(recs) = Len(list)
      BY <1>4
    <3>2. \A k \in 1..Len(list) : Written(IdAt(more[k])') = Written(IdAt(list[k]))
      BY <1>2, <2>2
    <3>3. IdAt(more[Len(list) + 1])' = id
      BY <1>2, <2>2
    <3>4. QED BY <1>4, <2>3, <3>1, <3>2, <3>3
  <2>7. /\ more \in Seq(Nat) /\ Enumerates(more, Survivors')
        /\ output' = [magic |-> input'.magic, snaplen |-> GlobalHeader(input').snaplen,
                      records |-> [k \in 1..Len(more) |-> Written(IdAt(more[k])')]]
    BY <1>2, <2>2, <2>4, <2>5, <2>6
  <2>8. QED BY <2>7 DEF Copied, Written
<1>7. QED BY <1>5, <1>6

MainInv == Reading /\ FlowsRight /\ OutputRight

LEMMA MainInvInit == MainInit => MainInv
<1> SUFFICES ASSUME MainInit PROVE MainInv
  OBVIOUS
<1>1. Reading
  BY ReadingInit
<1>2. pos = 0 /\ flows = << >> /\ output = NoFile /\ phase = "start"
  BY DEF MainInit
<1>3. Read = {}
  BY <1>2 DEF Read
<1>4. Carried = {} /\ DOMAIN flows = {}
  BY <1>2, <1>3 DEF Carried
<1>5. FlowsRight
  BY <1>4 DEF FlowsRight
<1>6. OutputRight
  BY <1>2 DEF OutputRight
<1>7. QED BY <1>1, <1>5, <1>6 DEF MainInv

LEMMA MainInvStep == FramesRight /\ MainInv /\ [MainNext]_main => MainInv'
<1> SUFFICES ASSUME FramesRight, MainInv, [MainNext]_main PROVE MainInv'
  OBVIOUS
<1>1. Reading /\ FlowsRight /\ OutputRight /\ Reading'
  BY ReadingStep DEF MainInv
<1>2. ASSUME UNCHANGED <<input, pos, rules, flows>> PROVE FlowsRight'
  <2>1. \A t, i : Knowledge(t, i)' = Knowledge(t, i) /\ (Banned(t, i)' <=> Banned(t, i))
    BY SMTT(30), <1>2 DEF Knowledge, NameBy, Naming, Banned, Judged, IsBlocked, OfFlow, Carried, Read, IdAt
  <2>2. \A i : IdAt(i)' = IdAt(i)
    BY <1>2 DEF IdAt
  <2>3. Carried' = Carried
    BY <1>2, <2>2 DEF Carried, Read
  <2>4. QED BY <1>1, <1>2, <2>1, <2>2, <2>3 DEF FlowsRight
<1>3. CASE Open
  <2>1. FlowsRight'
    BY <1>2, <1>3 DEF Open
  <2>2. CASE phase' = "failed"
    <3>1. output' = NoFile
      BY <1>1, <1>3, <2>2 DEF Open, OutputRight
    <3>2. QED BY <1>1, <2>1, <2>2, <3>1 DEF MainInv, OutputRight
  <2>3. CASE phase' = "loop"
    <3>1. /\ pos' = 0
          /\ output' = [magic |-> input'.magic, snaplen |-> GlobalHeader(input').snaplen,
                        records |-> << >>]
      BY <1>1, <1>3, <2>3 DEF Open, Reading
    <3>2. Survivors' = {}
      BY <3>1 DEF Survivors, Carried, Read
    <3>3. /\ << >> \in Seq(Nat) /\ Enumerates(<< >>, {})
          /\ << >> = [k \in 1..Len(<< >>) |-> Written(IdAt(<< >>[k])')]
      BY DEF Enumerates
    <3>4. Copied'
      BY <3>1, <3>2, <3>3 DEF Copied, Written
    <3>5. QED BY <1>1, <2>1, <2>3, <3>4 DEF MainInv, OutputRight
  <2>4. phase' = "loop" \/ phase' = "failed"
    BY <1>3 DEF Open
  <2>5. QED BY <1>1, <2>1, <2>2, <2>3, <2>4 DEF MainInv
<1>4. CASE ProcessPacket
  <2>1. /\ phase = "loop" /\ phase' = "loop" /\ pos' = pos + 1
        /\ input' = input /\ rules' = rules
    BY <1>4 DEF ProcessPacket
  <2>2. PICK id \in ReadNextPacket(input, pos) :
          IF Transport(Bytes[id]) = {} THEN UNCHANGED <<flows, output>>
          ELSE \E parsed \in Transport(Bytes[id]) :
                 LET flow == Inspected(FlowOf(parsed.tuple), Bytes[id], parsed)
                 IN /\ flows' = [t \in DOMAIN flows \cup {parsed.tuple} |->
                                   IF t = parsed.tuple THEN flow ELSE flows[t]]
                    /\ output' = IF flow.blocked THEN output
                                 ELSE [output EXCEPT !.records = Append(@, Written(id))]
    BY <1>4 DEF ProcessPacket
  <2>3. pos \in Nat /\ input \in Captures /\ Len(input.records) \in Nat
    BY <1>1, Captured DEF Reading
  <2> DEFINE n == pos + 1
             u == Sent[input.records[n].data].tuple
  <2>4. n \in 1..Len(input.records) /\ id = input.records[n].data
    BY <2>2, <2>3, ReadOne
  <2>5. id \in Frames
    BY <2>3, <2>4, Captured
  <2>6. PICK m, t : m = n /\ t = u
    OBVIOUS
  <2>7. Turn(m, t) /\ id = input.records[m].data
    BY <1>1, <2>1, <2>4, <2>6 DEF Turn
  <2> HIDE DEF n, u
  <2>8. FlowsRight'
    <3>1. IF Transport(Bytes[id]) = {} THEN flows' = flows
          ELSE \E parsed \in Transport(Bytes[id]) :
                 flows' = [x \in DOMAIN flows \cup {parsed.tuple} |->
                             IF x = parsed.tuple
                             THEN Inspected(FlowOf(parsed.tuple), Bytes[id], parsed)
                             ELSE flows[x]]
      BY <2>2
    <3>2. QED BY <1>1, <2>5, <2>7, <3>1, FlowsStep
  <2>9. Copied
    BY <1>1, <2>1 DEF OutputRight
  <2>10. CASE Transport(Bytes[id]) = {}
    <3>1. t = << >>
      <4>1. {parsed.tuple : parsed \in Transport(Bytes[id])}
              = IF Sent[id].tuple = << >> THEN {} ELSE {Sent[id].tuple}
        BY <2>5 DEF FramesRight, ReadRight
      <4>2. t = Sent[id].tuple
        BY <2>7 DEF Turn
      <4>3. QED BY <2>10, <4>1, <4>2
    <3>2. output' = output
      BY <2>2, <2>10
    <3>3. Copied'
      BY <2>7, <2>9, <3>1, <3>2, CopiedStep
    <3>4. QED BY <1>1, <2>1, <2>8, <3>3 DEF MainInv, OutputRight
  <2>11. CASE Transport(Bytes[id]) # {}
    <3>1. PICK parsed \in Transport(Bytes[id]) :
            LET flow == Inspected(FlowOf(parsed.tuple), Bytes[id], parsed)
            IN output' = IF flow.blocked THEN output
                         ELSE [output EXCEPT !.records = Append(@, Written(id))]
      BY <2>2, <2>11
    <3>2. PICK b \in BOOLEAN :
            /\ t # << >> /\ parsed.tuple = t
            /\ Inspected(FlowOf(t), Bytes[id], parsed)
                 = [app |-> Knowledge(t, m)'.app, sni |-> Knowledge(t, m)'.sni, blocked |-> b]
            /\ b <=> Banned(t, m)'
      BY <1>1, <2>5, <2>7, InspectedRight
    <3>3. output' = IF b THEN output ELSE [output EXCEPT !.records = Append(@, Written(id))]
      BY <3>1, <3>2
    <3>4. Copied'
      <4>1. CASE b
        <5>1. ~(t # << >> /\ ~Banned(t, m)') /\ output' = output
          BY <3>2, <3>3, <4>1
        <5>2. QED BY <2>7, <2>9, <5>1, CopiedStep
      <4>2. CASE ~b
        <5>1. /\ t # << >> /\ ~Banned(t, m)'
              /\ output' = [output EXCEPT !.records = Append(@, Written(id))]
          BY <3>2, <3>3, <4>2
        <5>2. QED BY <2>7, <2>9, <5>1, CopiedStep
      <4>3. QED BY <4>1, <4>2
    <3>5. QED BY <1>1, <2>1, <2>8, <3>4 DEF MainInv, OutputRight
  <2>12. QED BY <2>10, <2>11
<1>5. CASE Close
  <2>1. /\ phase = "loop" /\ phase' = "done"
        /\ UNCHANGED <<input, pos, rules, flows, output>>
    BY <1>5 DEF Close
  <2>2. Copied
    BY <1>1, <2>1 DEF OutputRight
  <2>3. Copied'
    BY <2>1, <2>2, StillCopied
  <2>4. QED BY <1>1, <1>2, <2>1, <2>3 DEF MainInv, OutputRight
<1>6. CASE Die
  <2>1. SurvivorsWritten' /\ FlowsRight' /\ phase' = "dead"
    BY <1>1, <1>2, <1>6, DieStep DEF Die
  <2>2. QED BY <1>1, <2>1 DEF MainInv, OutputRight
<1>7. CASE UNCHANGED main
  <2>1. UNCHANGED <<phase, input, pos, rules, flows, output>>
    BY <1>7 DEF main
  <2>2. Copied => Copied'
    BY <2>1, StillCopied
  <2>3. SurvivorsWritten => SurvivorsWritten'
    <3>1. Survivors' = Survivors /\ \A i : IdAt(i)' = IdAt(i)
      BY <2>1, SameSurvivors
    <3>2. QED BY <2>1, <3>1 DEF SurvivorsWritten
  <2>4. QED BY <1>1, <1>2, <2>1, <2>2, <2>3 DEF MainInv, OutputRight
<1>8. QED BY <1>3, <1>4, <1>5, <1>6, <1>7 DEF MainNext

(* Whatever the captures and the rules: a flow bears the name the first    *)
(* packet that may name it gives, if the parser and the extractors are     *)
(* right about each frame by itself.                                       *)
THEOREM FlowsNamedByFirst == FramesRight => (MainSpec => []NamedByFirst)
<1>1. MainInv => NamedByFirst
  <2> SUFFICES ASSUME MainInv PROVE NamedByFirst
    OBVIOUS
  <2>1. FlowsRight
    BY DEF MainInv
  <2>2. ASSUME NEW t \in DOMAIN flows
        PROVE  [sni |-> flows[t].sni, app |-> flows[t].app] = Knowledge(t, pos)
    <3>1. PICK b \in BOOLEAN :
            flows[t] = [app |-> Knowledge(t, pos).app, sni |-> Knowledge(t, pos).sni,
                        blocked |-> b]
      BY <2>1 DEF FlowsRight
    <3>2. QED BY <3>1, KnownIs
  <2>3. QED BY <2>1, <2>2 DEF NamedByFirst, FlowsRight
<1>2. ASSUME FramesRight PROVE MainSpec => []NamedByFirst
  <2>1. MainInv /\ [MainNext]_main => MainInv'
    BY <1>2, MainInvStep
  <2>2. QED BY <1>1, <2>1, MainInvInit, PTL DEF MainSpec
<1>3. QED BY <1>2

(* And the output is a capture of exactly the packets no rule condemned,   *)
(* in order, an initial segment of them when main is cut off.              *)
THEOREM OutputIsSurvivors == FramesRight => (MainSpec => []SurvivorsWritten)
<1>1. MainInv => SurvivorsWritten
  BY CopiedWritten DEF MainInv, OutputRight
<1>2. ASSUME FramesRight PROVE MainSpec => []SurvivorsWritten
  <2>1. MainInv /\ [MainNext]_main => MainInv'
    BY <1>2, MainInvStep
  <2>2. QED BY <1>1, <2>1, MainInvInit, PTL DEF MainSpec
<1>3. QED BY <1>2
=============================================================================
