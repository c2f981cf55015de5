------------------------------ MODULE DataBase ------------------------------
(***************************************************************************)
(* The gateway's sensor registry, src/db/DataBase.cpp: two std::maps keyed  *)
(* by MAC, in memory only.  dbInfo_ is status and rcount (an absent entry   *)
(* is "Newby", what query returns for it); macVCount_ is vcount.  No method *)
(* takes a lock; each access to a map is one step of the caller.            *)
(***************************************************************************)
EXTENDS Messages

VARIABLES
    status,  \* dbInfo_[mac].first
    rcount,  \* dbInfo_[mac].second: how often a reboot was requested
    vcount   \* macVCount_[mac]: invalid readings since the last valid one

dbVars == <<status, rcount, vcount>>

Absent == -1

DbTypeOK ==
    /\ status \in [Macs -> Status]
    /\ rcount \in [Macs -> Nat]
    /\ vcount \in [Macs -> Nat \cup {Absent}]

DbInit ==
    /\ status = [m \in Macs |-> "Newby"]
    /\ rcount = [m \in Macs |-> 0]
    /\ vcount = [m \in Macs |-> Absent]

\* The map is cleared with the process that holds it.
DbLost ==
    /\ status' = [m \in Macs |-> "Newby"]
    /\ rcount' = [m \in Macs |-> 0]
    /\ vcount' = [m \in Macs |-> Absent]

query(m) == status[m]

\* saveClient: emplace leaves an entry that is already there as it is.
saveClientInfo(m) ==
    /\ status' = [status EXCEPT ![m] = IF @ = "Newby" THEN "Good" ELSE @]
    /\ UNCHANGED <<rcount, vcount>>

\* Mutant: only dbInfo_ gets the new sensor.
saveClientCountForgotten(m) == UNCHANGED <<status, rcount, vcount>>

saveClientCount(m) ==
    /\ vcount' = [vcount EXCEPT ![m] = IF @ = Absent THEN 0 ELSE @]
    /\ UNCHANGED <<status, rcount>>

activate(m) ==
    /\ status' = [status EXCEPT ![m] = IF @ = "Newby" THEN @ ELSE "Good"]
    /\ UNCHANGED <<rcount, vcount>>

\* Mutant: the request is not counted.
rebootUncounted(m) ==
    /\ status' = [status EXCEPT ![m] = "Bad"]
    /\ UNCHANGED <<rcount, vcount>>

reboot(m) ==
    /\ IF status[m] = "Newby"
       THEN UNCHANGED <<status, rcount>>
       ELSE /\ status' = [status EXCEPT ![m] = "Bad"]
            /\ rcount' = [rcount EXCEPT ![m] = @ + 1]
    /\ UNCHANGED vcount

\* macVCount_.at throws for an absent entry; nothing catches it.
AtThrows(m) == vcount[m] = Absent

increaseErrorCount(m) ==
    /\ vcount' = [vcount EXCEPT ![m] = @ + 1]
    /\ UNCHANGED <<status, rcount>>

\* Mutant: one count for all sensors.
resetErrorCountOfAll(m) ==
    /\ vcount' = [x \in Macs |-> 0]
    /\ UNCHANGED <<status, rcount>>

resetErrorCount(m) ==
    /\ vcount' = [vcount EXCEPT ![m] = 0]
    /\ UNCHANGED <<status, rcount>>

getErrorCount(m) == vcount[m]

\* setInfo leaves the caller's zeroed structure alone for an unknown sensor.
setInfo(m, gatewayData) ==
    IF status[m] = "Newby" THEN gatewayData
    ELSE [status |-> statusToint(status[m]), rcount |-> rcount[m]]
=============================================================================
