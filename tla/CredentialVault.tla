-------------------------- MODULE CredentialVault --------------------------
(***************************************************************************)
(* The credential vault (services/credentials.py): save, mark_verified and *)
(* forget as threads run them, each a read, a temporary file and an atomic *)
(* replacement of the one document, under a lock that the threads and      *)
(* vault objects of one process share and other processes do not have.     *)
(***************************************************************************)
EXTENDS VaultDocument

CONSTANTS
    Threads,
    Process,        \* thread -> the process it belongs to
    MaxCalls,       \* bound: calls of a behaviour
    MaxFaults,      \* bound: failed reads, writes and replacements, and crashes
    NoOne           \* not a thread

ASSUME ThreadAssumption ==
    /\ NoOne \notin Threads
    /\ DOMAIN Process = Threads
    /\ MaxCalls \in Nat /\ MaxFaults \in Nat

Processes == {Process[t] : t \in Threads}

VARIABLES
    file,     \* the document in vault.dpapi, <<>> also when there is no file
    lock,     \* CredentialVault._lock of each process: the thread that has it
    pc,       \* where each thread is in its call
    call,     \* the arguments of the thread's call
    next,     \* the document the thread is about to write
    fresh,    \* the id of the entry it may add
    behind,   \* whether another process replaced the file after the thread read it
    issued,   \* the ids uuid4 has returned
    calls, faults

vars == <<file, lock, pc, call, next, fresh, behind, issued, calls, faults>>

NoCall == [op |-> "none"]

Init ==
    /\ file = <<>>
    /\ lock = [p \in Processes |-> NoOne]
    /\ pc = [t \in Threads |-> "idle"]
    /\ call = [t \in Threads |-> NoCall]
    /\ next = [t \in Threads |-> <<>>]
    /\ fresh = [t \in Threads |-> NoOne]
    /\ behind = [t \in Threads |-> FALSE]
    /\ issued = {}
    /\ calls = 0 /\ faults = 0

Call(t) ==
    /\ pc[t] = "idle"
    /\ calls < MaxCalls
    /\ calls' = calls + 1
    /\ \E c \in Calls :
        /\ c.op # "save" => c.id \in issued     \* nobody guesses a uuid
        /\ call' = [call EXCEPT ![t] = c]
    /\ pc' = [pc EXCEPT ![t] = "lock"]
    /\ UNCHANGED <<file, lock, next, fresh, behind, issued, faults>>

LockFree_Own(t) == TRUE                     \* mutant: a lock of each vault object
LockFree(t) == lock[Process[t]] = NoOne

Lock(t) ==
    /\ pc[t] = "lock"
    /\ LockFree(t)
    /\ lock' = [lock EXCEPT ![Process[t]] = t]
    /\ pc' = [pc EXCEPT ![t] = "read"]
    /\ UNCHANGED <<file, call, next, fresh, behind, issued, calls, faults>>

\* Out of the with block, by return or by CredentialVaultError.
Leave(t) ==
    /\ lock' = [lock EXCEPT ![Process[t]] = NoOne]
    /\ pc' = [pc EXCEPT ![t] = "idle"]
    /\ call' = [call EXCEPT ![t] = NoCall]
    /\ next' = [next EXCEPT ![t] = <<>>]
    /\ fresh' = [fresh EXCEPT ![t] = NoOne]

\* Read and decode the document and decide: return or raise without writing
\* (known association, unknown id, no room), or prepare a document to write.
Read(t) ==
    /\ pc[t] = "read"
    /\ \/ /\ \A id \in Ids : Outcomes(file, call[t], id) \subseteq {file}
          /\ Leave(t)
          /\ UNCHANGED <<behind, issued>>
       \/ \E id \in Ids \ issued : \E after \in Outcomes(file, call[t], id) \ {file} :
            /\ next' = [next EXCEPT ![t] = after]
            /\ fresh' = [fresh EXCEPT ![t] = id]
            /\ issued' = issued \cup {after[i].id : i \in DOMAIN after}
            /\ behind' = [behind EXCEPT ![t] = FALSE]
            /\ pc' = [pc EXCEPT ![t] = "write"]
            /\ UNCHANGED <<lock, call>>
    /\ UNCHANGED <<file, calls, faults>>

\* The encrypted bytes are in a temporary file, flushed and synced.
WriteTemporary(t) ==
    /\ pc[t] = "write"
    /\ pc' = [pc EXCEPT ![t] = "replace"]
    /\ UNCHANGED <<file, lock, call, next, fresh, behind, issued, calls, faults>>

\* os.replace
Replace(t) ==
    /\ pc[t] = "replace"
    /\ file' = next[t]
    /\ behind' = [s \in Threads |-> behind[s] \/ Process[s] # Process[t]]
    /\ Leave(t)
    /\ UNCHANGED <<issued, calls, faults>>

Fault == faults < MaxFaults /\ faults' = faults + 1

\* An unreadable file, a failed encryption or write, a replacement that still
\* fails after its retries: CredentialVaultError, the document is untouched.
Fails(t) ==
    /\ Fault
    /\ pc[t] \in {"read", "write", "replace"}
    /\ Leave(t)
    /\ UNCHANGED <<file, behind, issued, calls>>

\* The process dies; a temporary file it leaves behind is never read.
Crash(p) ==
    /\ Fault
    /\ lock' = [lock EXCEPT ![p] = NoOne]
    /\ pc' = [t \in Threads |-> IF Process[t] = p THEN "idle" ELSE pc[t]]
    /\ call' = [t \in Threads |-> IF Process[t] = p THEN NoCall ELSE call[t]]
    /\ next' = [t \in Threads |-> IF Process[t] = p THEN <<>> ELSE next[t]]
    /\ fresh' = [t \in Threads |-> IF Process[t] = p THEN NoOne ELSE fresh[t]]
    /\ UNCHANGED <<file, behind, issued, calls>>

Next ==
    \/ \E t \in Threads : Call(t) \/ Lock(t) \/ Read(t) \/ WriteTemporary(t) \/ Replace(t)
                            \/ Fails(t)
    \/ \E p \in Processes : Crash(p)

Spec == Init /\ [][Next]_vars

-----------------------------------------------------------------------------
(* Properties. *)

TypeOK ==
    /\ file \in Seq(Entry)
    /\ lock \in [Processes -> Threads \cup {NoOne}]
    /\ pc \in [Threads -> {"idle", "lock", "read", "write", "replace"}]
    /\ call \in [Threads -> Calls \cup {NoCall}]
    /\ next \in [Threads -> Seq(Entry)]
    /\ fresh \in [Threads -> Ids \cup {NoOne}]
    /\ behind \in [Threads -> BOOLEAN]
    /\ issued \in SUBSET Ids
    /\ calls \in 0..MaxCalls /\ faults \in 0..MaxFaults

\* Whatever threads, processes, failed writes and crashes did, the next read
\* accepts the document: within its capacities, no id and no (host, token)
\* twice, no entry without a project (_decode_document fails closed on these).
AlwaysDecodes == Decodes(file)

\* Unless another process replaced the document in between, each replacement
\* makes exactly the change its call describes to the document as it is then:
\* the threads of a process lose no change of each other ("a shared RLock
\* serialize read/modify/write across threads and vault instances").
UpdatesAreAtomic ==
    [][\E t \in Threads :
         /\ pc[t] = "replace" /\ file' = next[t]
         /\ behind[t] \/ file' \in Outcomes(file, call[t], fresh[t])]_file

=============================================================================
