---------------------------- MODULE RuleManager ----------------------------
(***************************************************************************)
(* dpi/rule_manager.py: four tables of blocking rules, each under a lock of*)
(* its own.  An operation on one table is atomic; should_block, clear_all, *)
(* save_rules and load_rules visit the tables one after the other while    *)
(* other threads edit them.                                                *)
(*                                                                         *)
(* A rule is an element of Rules and a packet is the set of the rules that *)
(* match it: its address, port, application and name are not told apart    *)
(* further.  The checkers are the fast paths; Admin is the thread that     *)
(* loads, saves and clears; single edits come from anybody.                *)
(***************************************************************************)
EXTENDS Naturals, Sequences

CONSTANTS Rules, KindOf,
          Patterns,    \* domain rules with a * or a ?, kept in a list
          Bracketed,   \* domain rules whose text starts with a bracket
          Probes,      \* the packets that may be checked
          Checkers, Admin,
          MaxCalls     \* bound on edits and on operations of Admin

Kinds == {"ip", "port", "app", "domain"}
CheckOrder == <<"ip", "port", "app", "domain">>
FileOrder == <<"ip", "app", "domain", "port">>
Threads == Checkers \cup {Admin}

ASSUME RuleAssumption ==
  /\ KindOf \in [Rules -> Kinds]
  /\ Patterns \cup Bracketed \subseteq {r \in Rules : KindOf[r] = "domain"}
  /\ Probes \subseteq SUBSET Rules
  /\ Admin \notin Checkers
  /\ MaxCalls \in Nat

VARIABLES
  copies,    \* how often a rule is in its table
  file,      \* how often a rule is in the rules file
  stage,     \* table a checker looks at next, 0 when should_block returned
  probe,     \* the packet it checks
  verdict,   \* what should_block last returned to it
  op,        \* what Admin does or did last
  section,   \* table or section it visits next, 0 when it returned
  left,      \* lines of the file that load_rules has not read
  calls,     \* edits and operations so far
  before,    \* history: rules in force when a thread's operation began,
  added,     \* those blocked and
  removed    \* those taken out of force since, by anybody

checkVars == <<stage, probe, verdict>>
adminVars == <<op, section, left>>
vars == <<copies, file, checkVars, adminVars, calls, before, added, removed>>

InForce == {r \in Rules : copies[r] > 0}
Nothing == [r \in Rules |-> 0]
OfKind(k) == {r \in Rules : KindOf[r] = k}

Init ==
  /\ copies = Nothing
  /\ file \in [Rules -> 0..1]                    \* written by the user
  /\ stage = [c \in Checkers |-> 0]
  /\ probe = [c \in Checkers |-> {}]
  /\ verdict = [c \in Checkers |-> "none"]
  /\ op = "none" /\ section = 0 /\ left = Nothing
  /\ calls = 0
  /\ before = [t \in Threads |-> {}]
  /\ added = [t \in Threads |-> {}]
  /\ removed = [t \in Threads |-> {}]
-----------------------------------------------------------------------------
\* History: thread t begins an operation.
Begin(t) ==
  /\ before' = [before EXCEPT ![t] = InForce]
  /\ added' = [added EXCEPT ![t] = {}]
  /\ removed' = [removed EXCEPT ![t] = {}]

\* The tables change: rs are (re)stated, and what is at zero is gone.
Change(new, rs) ==
  /\ copies' = new
  /\ added' = [t \in Threads |-> added[t] \cup rs]
  /\ removed' = [t \in Threads |-> removed[t] \cup {r \in InForce : new[r] = 0}]
  /\ UNCHANGED before

Call == calls < MaxCalls /\ calls' = calls + 1

(* block_ip, block_port, block_app, block_domain: a table is a set, the    *)
(* pattern list keeps duplicates.                                          *)
Blocked(r) == [copies EXCEPT ![r] = IF r \in Patterns THEN @ + 1 ELSE 1]

\* unblock_*: only the first copy of a pattern goes.
Unblocked(r) == [copies EXCEPT ![r] = IF @ = 0 THEN 0 ELSE @ - 1]

Block(r) ==
  /\ Call /\ Change(Blocked(r), {r})
  /\ UNCHANGED <<file, checkVars, adminVars>>

Unblock(r) ==
  /\ Call /\ Change(Unblocked(r), {})
  /\ UNCHANGED <<file, checkVars, adminVars>>
-----------------------------------------------------------------------------
(* should_block: one table at a time, the first match is the verdict.      *)
StartCheck(c, p) ==
  /\ stage[c] = 0
  /\ stage' = [stage EXCEPT ![c] = 1]
  /\ probe' = [probe EXCEPT ![c] = p]
  /\ Begin(c)
  /\ UNCHANGED <<copies, file, verdict, adminVars, calls>>

AnyOfKind(k, p) == OfKind(k) \cap p # {} /\ OfKind(k) \cap InForce # {}  \* mutant

\* is_ip_blocked, is_port_blocked, is_app_blocked, is_domain_blocked
Matches(k, p) == OfKind(k) \cap p \cap InForce # {}

Answer(c, v) ==
  /\ verdict' = [verdict EXCEPT ![c] = v]
  /\ stage' = [stage EXCEPT ![c] = 0]

ConsultSkipsDomain(c) ==                                       \* mutant
  /\ stage[c] > 0
  /\ LET k == CheckOrder[stage[c]]
     IN \/ Matches(k, probe[c]) /\ Answer(c, k)
        \/ ~Matches(k, probe[c]) /\ stage[c] >= 3 /\ Answer(c, "none")
        \/ /\ ~Matches(k, probe[c]) /\ stage[c] < 3
           /\ stage' = [stage EXCEPT ![c] = @ + 1]
           /\ UNCHANGED verdict
  /\ UNCHANGED <<copies, file, probe, adminVars, calls, before, added, removed>>

Consult(c) ==
  /\ stage[c] > 0
  /\ LET k == CheckOrder[stage[c]]
     IN \/ Matches(k, probe[c]) /\ Answer(c, k)
        \/ ~Matches(k, probe[c]) /\ stage[c] = 4 /\ Answer(c, "none")
        \/ /\ ~Matches(k, probe[c]) /\ stage[c] < 4
           /\ stage' = [stage EXCEPT ![c] = @ + 1]
           /\ UNCHANGED verdict
  /\ UNCHANGED <<copies, file, probe, adminVars, calls, before, added, removed>>
-----------------------------------------------------------------------------
(* The operations of Admin go through the sections in the file's order.    *)
NextSection == section' = IF section = 4 THEN 0 ELSE section + 1

StartAdmin(what) ==
  /\ section = 0
  /\ Call
  /\ op' = what /\ section' = 1
  /\ Begin(Admin)
  /\ file' = IF what = "save" THEN Nothing ELSE file      \* opened with "w"
  /\ left' = IF what = "load" THEN file ELSE Nothing
  /\ UNCHANGED <<copies, checkVars>>

ClearedExact(k) == {r \in OfKind(k) : r \notin Patterns}        \* mutant

Cleared(k) == OfKind(k)

\* clear_all
ClearTable ==
  /\ op = "clear" /\ section > 0
  /\ LET gone == Cleared(FileOrder[section])
     IN Change([r \in Rules |-> IF r \in gone THEN 0 ELSE copies[r]], {})
  /\ NextSection
  /\ UNCHANGED <<file, checkVars, op, left, calls>>

SaveSectionExact ==                                             \* mutant
  /\ op = "save" /\ section > 0
  /\ file' = [r \in Rules |-> IF r \in OfKind(FileOrder[section]) \ Patterns
                              THEN copies[r] ELSE file[r]]
  /\ NextSection
  /\ UNCHANGED <<copies, checkVars, op, left, calls, before, added, removed>>

\* save_rules: the table is read when its section is written.
SaveSection ==
  /\ op = "save" /\ section > 0
  /\ file' = [r \in Rules |-> IF r \in OfKind(FileOrder[section])
                              THEN copies[r] ELSE file[r]]
  /\ NextSection
  /\ UNCHANGED <<copies, checkVars, op, left, calls, before, added, removed>>

\* A write fails: the exception leaves the sections before it in the file.
SaveFails ==
  /\ op = "save" /\ section > 0
  /\ op' = "failed" /\ section' = 0
  /\ UNCHANGED <<copies, file, checkVars, left, calls, before, added, removed>>

(* load_rules adds the rule of one line; the lines of a section come in any*)
(* order.  A line that starts with a bracket is taken for a header, of a   *)
(* section that is not known, so that the rest of its section is skipped.  *)
Lines == {r \in OfKind(FileOrder[section]) : left[r] > 0}

LoadLine(r) ==
  /\ op = "load" /\ section > 0 /\ r \in Lines
  /\ IF r \in Bracketed
     THEN /\ left' = [x \in Rules |-> IF x \in Lines THEN 0 ELSE left[x]]
          /\ UNCHANGED <<copies, before, added, removed>>
     ELSE /\ left' = [left EXCEPT ![r] = @ - 1]
          /\ Change(Blocked(r), {r})
  /\ UNCHANGED <<file, checkVars, op, section, calls>>

LoadAbandonsSection ==                                          \* mutant
  /\ op = "load" /\ section > 0
  /\ NextSection
  /\ UNCHANGED <<copies, file, checkVars, op, left, calls, before, added, removed>>

LoadHeader ==
  /\ op = "load" /\ section > 0 /\ Lines = {}
  /\ NextSection
  /\ UNCHANGED <<copies, file, checkVars, op, left, calls, before, added, removed>>

Next ==
  \/ \E r \in Rules : Block(r) \/ Unblock(r) \/ LoadLine(r)
  \/ \E c \in Checkers : Consult(c) \/ \E p \in Probes : StartCheck(c, p)
  \/ \E what \in {"clear", "save", "load"} : StartAdmin(what)
  \/ ClearTable \/ SaveSection \/ SaveFails \/ LoadHeader

Spec == Init /\ [][Next]_vars
-----------------------------------------------------------------------------
TypeOK ==
  /\ copies \in [Rules -> Nat] /\ file \in [Rules -> Nat] /\ left \in [Rules -> Nat]
  /\ \A r \in Rules \ Patterns : copies[r] <= 1
  /\ stage \in [Checkers -> 0..4]
  /\ probe \in [Checkers -> SUBSET Rules]
  /\ verdict \in [Checkers -> Kinds \cup {"none"}]
  /\ op \in {"none", "clear", "save", "load", "failed"} /\ section \in 0..4
  /\ calls \in 0..MaxCalls
  /\ before \in [Threads -> SUBSET Rules]
  /\ added \in [Threads -> SUBSET Rules]
  /\ removed \in [Threads -> SUBSET Rules]

\* In force from the beginning of t's operation until now, or at some time.
Always(t) == before[t] \ removed[t]
Ever(t) == before[t] \cup added[t]

(* should_block is no snapshot, yet a rule that was in force all the while *)
(* never lets a packet it matches pass, whatever is edited meanwhile.      *)
CoveredIsBlocked ==
  \A c \in Checkers :
    stage[c] = 0 /\ verdict[c] = "none" => probe[c] \cap Always(c) = {}

(* The reason it gives is a rule that was in force during the check, and   *)
(* no rule of a kind with precedence was in force all the while.           *)
Rank(k) == CHOOSE i \in 1..4 : CheckOrder[i] = k

ReasonHolds ==
  \A c \in Checkers :
    stage[c] = 0 /\ verdict[c] # "none" =>
      /\ probe[c] \cap OfKind(verdict[c]) \cap Ever(c) # {}
      /\ \A r \in probe[c] \cap Always(c) : Rank(KindOf[r]) >= Rank(verdict[c])

(* After clear_all only rules that were blocked since it began are left.   *)
ClearLeavesOnlyNew ==
  op = "clear" /\ section = 0 => InForce \subseteq added[Admin]

(* A file that was written while rules changed holds every rule that was   *)
(* in force throughout, and none that never was.                           *)
SaveFaithful ==
  op = "save" /\ section = 0 =>
    LET saved == {r \in Rules : file[r] > 0}
    IN Always(Admin) \subseteq saved /\ saved \subseteq Ever(Admin)

(* A loaded file is in force, but for rules removed since, and for domains *)
(* of a file in which a domain starts with a bracket.                      *)
LoadComplete ==
  op = "load" /\ section = 0 =>
    \A r \in Rules :
      file[r] > 0 => \/ r \in InForce \/ r \in removed[Admin]
                     \/ KindOf[r] = "domain" /\ \E b \in Bracketed : file[b] > 0
=============================================================================
