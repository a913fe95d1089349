---------------------------- MODULE MCBleLedger ----------------------------
(***************************************************************************)
(* BleLedger in three scenarios: one profile, two connections and          *)
(* everything a central may do; one connection and more in flight at once; *)
(* and forced initialisations and changes of profile.                      *)
(***************************************************************************)
EXTENDS BleLedger

MCScenarios ==
    {[masks |-> {"APDU"}, forced |-> FALSE, links |-> 2, inFlight |-> 2,
      uses |-> {"att", "numcomp", "passkey", "paired", "timeout"}],
     [masks |-> {"APDU"}, forced |-> FALSE, links |-> 1, inFlight |-> 3,
      uses |-> {"att", "numcomp"}],
     [masks |-> {"APDU", "NONE"}, forced |-> TRUE, links |-> 1, inFlight |-> 2,
      uses |-> {"att", "timeout"}]}
=============================================================================
