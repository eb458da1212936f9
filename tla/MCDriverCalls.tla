--------------------------- MODULE MCDriverCalls ---------------------------
(***************************************************************************)
(* Instances of DriverCalls.  One frequency is too low for a divider of    *)
(* eight bits, one is higher than that of the core, and one pattern has a  *)
(* parameter that is out of range.                                         *)
(***************************************************************************)
EXTENDS DriverCalls

MCConfigs == {Disabled, Enabled(TRUE),
              [Disabled EXCEPT !.reset = TRUE, !.disableMISO = FALSE]}

MCFrequencies == {1000000, 100000, 120000000}

MCPatterns == {[DefaultPattern EXCEPT !.cycle = 600, !.period = 7],
               [DefaultPattern EXCEPT !.cycle = 3, !.period = 300]}

MCSources == {{}, {"on", "match"}, {"on", "external", "force"}, {"match", "external"}}

=============================================================================
