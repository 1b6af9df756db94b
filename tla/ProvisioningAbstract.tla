------------------------ MODULE ProvisioningAbstract ------------------------
(***************************************************************************)
(* What the provisioning workflow promises, without nonces, mempool, gas   *)
(* or RPC calls (spec sections 3, 7 and 8).  Contracts come into being     *)
(* holding their supply at the deployer, each owned by at most one         *)
(* invocation of the script (none, when the invocation never learnt of     *)
(* it).  Only an owned contract is ever distributed, once.  An invocation  *)
(* ends either failed, at any point, or ok, and ok only once the contract  *)
(* it owns has been distributed.                                           *)
(***************************************************************************)
CONSTANTS
    Procs,      \* invocations of the script
    Addresses,  \* addresses a contract can be created at
    NoOwner     \* "this invocation holds no contract"

\* NoOwner is meant to lie outside Addresses; the refinement maps it to
\* NoAddress = -1, outside ContractAddresses = 0..MaxNative.

VARIABLES
    status,   \* status[c]: "held" (supply at the deployer) or "distributed"
    owner,    \* owner[p]: the contract invocation p created, or NoOwner
    outcome   \* outcome[p]: "running", "ok" or "failed"

avars == <<status, owner, outcome>>

AInit ==
    /\ status = [c \in {} |-> "held"]
    /\ owner = [p \in Procs |-> NoOwner]
    /\ outcome = [p \in Procs |-> "running"]

\* A contract is created at a fresh address, owned by invocation o, if o
\* holds none yet, or by nobody (o = NoOwner).
Create(c, o) ==
    /\ c \notin DOMAIN status
    /\ status' = [x \in DOMAIN status \cup {c} |->
                    IF x = c THEN "held" ELSE status[x]]
    /\ \/ o = NoOwner /\ UNCHANGED owner
       \/ o \in Procs /\ owner[o] = NoOwner
          /\ owner' = [owner EXCEPT ![o] = c]
    /\ UNCHANGED outcome

\* The supply of a contract some invocation owns moves to the recipient.
Distribute(c) ==
    /\ c \in DOMAIN status
    /\ status[c] = "held"
    /\ \E p \in Procs : owner[p] = c
    /\ status' = [status EXCEPT ![c] = "distributed"]
    /\ UNCHANGED <<owner, outcome>>

\* An invocation succeeds only after its own contract was distributed.
Finish(p) ==
    /\ outcome[p] = "running"
    /\ owner[p] \in DOMAIN status
    /\ status[owner[p]] = "distributed"
    /\ outcome' = [outcome EXCEPT ![p] = "ok"]
    /\ UNCHANGED <<status, owner>>

\* An invocation can fail at any point; nothing is rolled back.
FailRun(p) ==
    /\ outcome[p] = "running"
    /\ outcome' = [outcome EXCEPT ![p] = "failed"]
    /\ UNCHANGED <<status, owner>>

ANext ==
    \/ \E c \in Addresses, o \in Procs \cup {NoOwner} : Create(c, o)
    \/ \E c \in Addresses : Distribute(c)
    \/ \E p \in Procs : Finish(p) \/ FailRun(p)

ASpec == AInit /\ [][ANext]_avars

=============================================================================
