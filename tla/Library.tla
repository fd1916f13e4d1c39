-------------------------------- MODULE Library --------------------------------
(***************************************************************************)
(* What the cache manager (src/src/cache) promises of artifacts that never *)
(* expire, without its records, its flights, its renames and its repairs:  *)
(* the first version of a main file to be stored is the only one, the      *)
(* checksum stored with it is of that version, and whoever asks is sent    *)
(* that version, however often requests are dropped or the process killed. *)
(***************************************************************************)
CONSTANTS Clients, Mains, Versions, None

VARIABLES
    shelf,    \* main artifact -> the version stored, or None
    digests,  \* main artifact -> the version whose checksum is stored, or None
    lent      \* client -> the main file and the version it is being sent, or None

Nothing == [c \in Clients |-> None]

Init ==
    /\ shelf = [m \in Mains |-> None]
    /\ digests = [m \in Mains |-> None]
    /\ lent = Nothing

\* A checksum is stored: before its main file, or of the one that is there.
Digest(m) ==
    /\ \E v \in Versions :
          /\ shelf[m] \in {None, v}
          /\ digests' = [digests EXCEPT ![m] = v]
    /\ UNCHANGED <<shelf, lent>>

\* A main file is stored, after its checksum and once for all.
Shelve(m) ==
    /\ shelf[m] = None /\ digests[m] \in Versions
    /\ shelf' = [shelf EXCEPT ![m] = digests[m]]
    /\ UNCHANGED <<digests, lent>>

Lend(c, m) ==
    /\ lent[c] = None /\ shelf[m] # None
    /\ lent' = [lent EXCEPT ![c] = [main |-> m, of |-> shelf[m]]]
    /\ UNCHANGED <<shelf, digests>>

Return(c) ==
    /\ lent' = [lent EXCEPT ![c] = None]
    /\ UNCHANGED <<shelf, digests>>

\* The process is killed: every client loses what it was being sent.
Close ==
    /\ lent' = Nothing
    /\ UNCHANGED <<shelf, digests>>

Next ==
    \/ \E m \in Mains : Digest(m) \/ Shelve(m) \/ \E c \in Clients : Lend(c, m)
    \/ \E c \in Clients : Return(c)
    \/ Close

Spec == Init /\ [][Next]_<<shelf, digests, lent>>
================================================================================
