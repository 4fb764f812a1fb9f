-------------------------- MODULE MCServerLifecycle --------------------------
(* The configurations of ServerLifecycle that the run server checks.       *)
EXTENDS ServerLifecycle

CONSTANTS ca1, ca2, root

MCCAs == {ca1, ca2}

Base == [blocking |-> FALSE, files |-> <<>>, generated |-> <<>>, intermediate |-> FALSE,
         broken |-> {}, sameName |-> {}, sameDN |-> {}, tls |-> "off",
         profile |-> FALSE]
Two == [Base EXCEPT !.files = <<ca1, ca2>>]

MCConfigs ==
    {Base, [Base EXCEPT !.blocking = TRUE, !.tls = "auto"],
     [Base EXCEPT !.generated = <<ca1, ca2>>], [Base EXCEPT !.profile = TRUE],
     [Base EXCEPT !.tls = "missing"],
     Two, [Two EXCEPT !.generated = <<ca1>>], [Two EXCEPT !.broken = {ca2}],
     [Two EXCEPT !.broken = {root}], [Two EXCEPT !.sameName = {{ca1, ca2}}],
     [Two EXCEPT !.sameDN = {{ca1, root}}, !.blocking = TRUE]}
=============================================================================
