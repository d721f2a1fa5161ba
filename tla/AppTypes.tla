------------------------------ MODULE AppTypes ------------------------------
(***************************************************************************)
(* dpi/types.py: the application a host name belongs to.  A name is a      *)
(* sequence of Latin-1 bytes.  The table of patterns is a parameter: what  *)
(* is modelled is how it is applied.                                       *)
(***************************************************************************)
EXTENDS Integers, Sequences

CONSTANT SNIPatterns   \* groups in order: [app, patterns], patterns <<text, mode>>

\* No pattern stands for an application nobody knows.
ASSUME PatternsAssumption ==
  /\ DOMAIN SNIPatterns = 1..Len(SNIPatterns) /\ Len(SNIPatterns) \in Nat
  /\ \A g \in DOMAIN SNIPatterns : SNIPatterns[g].app # "Unknown"

SUB == "SUB"   \* anywhere
DOM == "DOM"   \* the name, or a suffix of it after a dot
LBL == "LBL"   \* a whole label
PFX == "PFX"   \* the start of a label

LOCAL Dot == 46

\* str.lower on Latin-1.
Lower(name) ==
  [k \in DOMAIN name |->
     IF name[k] \in (65..90) \cup ((192..222) \ {215}) THEN name[k] + 32 ELSE name[k]]

Occurrences(host, pattern) ==
  {i \in 1..(Len(host) - Len(pattern) + 1) :
     SubSeq(host, i, i + Len(pattern) - 1) = pattern}

\* _pattern_matches.
PatternMatches(host, pattern, mode) ==
  \E i \in Occurrences(host, pattern) :
    LET next == i + Len(pattern)
        starts == i = 1 \/ host[i - 1] = Dot
        ends == next > Len(host) \/ host[next] = Dot
    IN CASE mode = SUB -> TRUE
         [] mode = DOM -> starts /\ next > Len(host)
         [] mode = LBL -> starts /\ ends
         [] mode = PFX -> starts

(* sni_to_app_type: the first group with a pattern that matches; a name    *)
(* that nobody knows is still HTTPS.                                       *)
SniToAppType(sni) ==
  LET matching == {g \in DOMAIN SNIPatterns :
                     \E p \in SNIPatterns[g].patterns :
                       PatternMatches(Lower(sni), p[1], p[2])}
  IN IF sni = << >> THEN "Unknown"
     ELSE IF matching = {} THEN "HTTPS"
     ELSE SNIPatterns[CHOOSE g \in matching : \A h \in matching : g <= h].app
=============================================================================
