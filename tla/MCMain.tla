------------------------------- MODULE MCMain -------------------------------
(***************************************************************************)
(* Configurations for TLC.                                                 *)
(***************************************************************************)
EXTENDS Main

CONSTANTS c1, c2

Entry(name, port, enabled) == [name |-> name, port |-> port, enabled |-> enabled]

(* Like config.json: some enabled, some not; a name main does not know;    *)
(* one port used twice; protocols without a port, before and after others. *)
SomeConfigs ==
  { <<Entry("Teltonika", 1, TRUE), Entry("Misspelt", 2, TRUE),
      Entry("Arnavi", 1, FALSE), Entry("Ruptela", 3, TRUE)>>,
    <<Entry("EGTS", 1, FALSE), Entry("Teltonika", 1, TRUE), Entry("Ruptela", 2, TRUE),
      Entry("BCE", 0, TRUE)>>,
    <<Entry("Teltonika", 1, TRUE), Entry("Ruptela", 1, TRUE)>>,
    <<Entry("Ruptela", 0, TRUE), Entry("Arnavi", 1, TRUE)>>,
    <<>> }
SomeNames == {"Teltonika", "Ruptela", "Arnavi", "EGTS", "BCE", "Misspelt"}
=============================================================================
