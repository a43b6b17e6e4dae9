----------------------------- MODULE MCCoinJoin -----------------------------
(***************************************************************************)
(* Instances of CoinJoin for TLC.                                          *)
(***************************************************************************)
EXTENDS CoinJoin

CONSTANTS c1, c2, c3, c4

ThreeClients == {c1, c2, c3}
OneInput == [c \in ThreeClients |-> 1]

Circumstances == [prompt : BOOLEAN, overlap : BOOLEAN, busy : BOOLEAN,
                  recent : BOOLEAN, mixing : {ThreeClients, {c1, c3}},
                  fault : {"none", "silent", "reset", "down"}]

\* Prompt messages, one thread at a time
Undisturbed == {e \in Circumstances : /\ e.prompt /\ ~e.overlap /\ ~e.busy
                                      /\ ~e.recent}

\* One of three wallets may fall silent
FallingSilent == {e \in Undisturbed : /\ e.fault = "silent"
                                      /\ e.mixing = ThreeClients}

\* One of two wallets may be reset by its user
BeingReset == {e \in Undisturbed : e.fault = "reset" /\ e.mixing = {c1, c3}}

\* Three wallets, one of which disconnects; cs_main may be taken, masternodes
\* may refuse for having mixed too recently
Disconnecting == {e \in Circumstances : /\ e.prompt /\ ~e.overlap /\ e.busy
                                        /\ e.recent /\ e.fault = "down"
                                        /\ e.mixing = ThreeClients}

\* Two wallets and overlapping threads, one wallet may disconnect
Overlapping == {e \in Circumstances : /\ e.prompt /\ e.overlap /\ ~e.busy
                                      /\ ~e.recent /\ e.fault = "down"
                                      /\ e.mixing = {c1, c3}}

\* Two wallets and timeouts that race with late messages
Late == {e \in Circumstances : /\ ~e.prompt /\ ~e.overlap /\ ~e.busy
                               /\ ~e.recent /\ e.fault = "down"
                               /\ e.mixing = {c1, c3}}

AllCircumstances ==
    FallingSilent \cup BeingReset \cup Disconnecting \cup Overlapping \cup Late

\* Nobody fails in any way
Faultless == {e \in Undisturbed : /\ e.fault = "none"
                                  /\ e.mixing = ThreeClients}

\* Two wallets, overlapping threads and late messages at once
LateOverlapping == {e \in Circumstances : /\ ~e.prompt /\ e.overlap /\ ~e.busy
                                          /\ ~e.recent /\ e.fault = "none"
                                          /\ e.mixing = {c1, c3}}

\* Four wallets mix in pairs, the second pair once the first is done; nobody fails and
\* nothing times out, but threads overlap and announcements may be late.
FourClients == {c1, c2, c3, c4}
FourInputs == [c \in FourClients |-> 1]
InPairs == {[prompt |-> FALSE, overlap |-> TRUE, busy |-> FALSE, recent |-> FALSE,
             mixing |-> FourClients, fault |-> "none"]}
PairsInTurn ==
    /\ ~timedOut /\ \A c \in FourClients : client[c].nState # "ERROR"
    /\ committed = {} => client[c3].tries = 0
    /\ client[c2].tries <= client[c1].tries /\ client[c4].tries <= client[c3].tries
=============================================================================
