--------------------------- MODULE MCRuleManager ---------------------------
(* An address, an application, a name and a wildcard that starts with a    *)
(* bracket; one packet that matches them all and one that is a bare name.  *)
EXTENDS RuleManager

CONSTANTS ip, app, name, range, c

MCRules == {ip, app, name, range}
MCKindOf == [r \in MCRules |-> CASE r = ip -> "ip" [] r = app -> "app"
                                 [] OTHER -> "domain"]
MCPatterns == {range}
MCBracketed == {range}
MCProbes == {MCRules, {name}}
MCCheckers == {c}
=============================================================================
