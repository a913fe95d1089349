------------------------------- MODULE MCAppIo -------------------------------
(***************************************************************************)
(* The exchanges of an application: two hosts that take turns, with exit   *)
(* requests and swap; two hosts that talk at the same time; and, in the    *)
(* behaviours of "reader", the cards it talks to as an NFC reader.         *)
(***************************************************************************)
EXTENDS AppIo, NfcReader

VARIABLE part

MCScenarios ==
    {[exclusive |-> TRUE, kinds |-> {"app", "version", "exit"}, swap |-> FALSE,
      requests |-> 2, itcs |-> 2, buttons |-> 1, locks |-> 1],
     [exclusive |-> TRUE, kinds |-> {"app"}, swap |-> TRUE,
      requests |-> 2, itcs |-> 1, buttons |-> 2, locks |-> 0],
     [exclusive |-> FALSE, kinds |-> {"app", "version"}, swap |-> FALSE,
      requests |-> 3, itcs |-> 1, buttons |-> 2, locks |-> 1]}

mcVars == <<part, vars, nfcVars>>

MCInit ==
    /\ part \in {"hosts", "reader"}
    /\ Init /\ (part = "reader" => budget.swap)
    /\ NfcInit

InHosts(A) == part = "hosts" /\ A /\ UNCHANGED <<part, nfcVars>>
InReader(A) == part = "reader" /\ A /\ UNCHANGED <<part, vars>>

MCNext == InHosts(Next) \/ InReader(NfcNext)

MCSpec ==
    /\ MCInit /\ [][MCNext]_mcVars
    /\ WF_mcVars(InHosts(Device))
    /\ WF_mcVars(InHosts(Ticker))
    /\ \A t \in Acked : WF_mcVars(InHosts(HostReads(t)))
    /\ WF_mcVars(InReader(Ticking))
=============================================================================
