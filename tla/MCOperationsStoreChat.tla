---------------------- MODULE MCOperationsStoreChat ----------------------
(***************************************************************************)
(* Administrative operations; the generation store with a key that expires *)
(* as soon as its lease; chat with its quota and orders.  The three share  *)
(* no state: a behaviour is one of them.                                   *)
(***************************************************************************)
EXTENDS ActionOperation, GenerationStore, PlatformChat, TLC

VARIABLE part

OperationsStoreChatInit ==
    /\ OperationInit /\ StoreInit /\ ChatInit /\ part \in {"operations", "store", "chat"}
    /\ part # "operations" => action = "delete"

OperationsStoreChatNext ==
    \/ part = "operations" /\ OperationNext /\ UNCHANGED <<storeVars, chatVars, part>>
    \/ part = "store" /\ StoreNext /\ UNCHANGED <<operationVars, chatVars, part>>
    \/ part = "chat" /\ ChatNext /\ UNCHANGED <<operationVars, storeVars, part>>

OperationsStoreChatSpec ==
    OperationsStoreChatInit /\ [][OperationsStoreChatNext]_<<operationVars, storeVars, chatVars, part>>

Symmetry == Permutations(Models) \cup Permutations(Clients) \cup Permutations(Keys) \cup Permutations(Tickets)
=============================================================================
