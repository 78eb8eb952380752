---------------------------- MODULE GatewayCalls ----------------------------
(***************************************************************************)
(* Calls under a gateway key: the key and its owner's row, which a session *)
(* of the owner and an administrator change meanwhile; the catalog cache   *)
(* of WhiteLabelService, refreshed by the calls themselves outside its     *)
(* mutex; and the event stream of a Responses call.                        *)
(***************************************************************************)
EXTENDS Naturals, FiniteSets

CONSTANTS Callers, CatalogModels,
          MaxPieces   \* bound: pieces of a tool call's arguments

ASSUME GatewayAssumption == MaxPieces \in Nat /\ IsFiniteSet(CatalogModels)

VARIABLES key,       \* one key of one owner: "none", "active", "expired", "disabled", "revoked"
          owner,     \* "active", "disabled", "deleted"
          edit,      \* a request about the key whose session has been checked
          catalog,   \* the cache, the models a trusted 404 took out, and the details
          request, out

gatewayVars == <<key, owner, edit, catalog, request, out>>

Idle == [pc |-> "idle", late |-> FALSE, acl |-> {}, model |-> "none", kind |-> "none", gen |-> 0, cache |-> {}, usable |-> FALSE]
NoOutput == [started |-> FALSE, tool |-> FALSE, id |-> FALSE, name |-> FALSE, open |-> FALSE, got |-> 0, sent |-> 0, end |-> "none"]

GatewayInit ==
    /\ key = "none" /\ owner = "active" /\ edit = "none"
    /\ catalog = [gen |-> 0, held |-> 0, models |-> {}, age |-> "none", off |-> {}, detail |-> {}, dgen |-> [m \in CatalogModels |-> 0]]
    /\ request = [c \in Callers |-> Idle] /\ out = [c \in Callers |-> NoOutput]

----------------------------------------------------------------------------
(* The key and its owner *)

\* The session middleware lets the owner's request in; what follows takes no lock on the owner.
AsksForKey ==
    /\ owner = "active" /\ edit = "none"
    /\ edit' \in IF key = "none" THEN {"create"} ELSE {"active", "disabled", "revoked"}
    /\ UNCHANGED <<key, owner, catalog, request, out>>

\* Create inserts, Update and Revoke write whatever status the row has by now; "active" is an update
\* that enables the key with an expiry ahead.
ChangesKey ==
    /\ edit # "none"
    /\ key' = IF edit = "create" THEN "active" ELSE edit
    /\ edit' = "none"
    /\ UNCHANGED <<owner, catalog, request, out>>

KeyExpires == key = "active" /\ key' = "expired" /\ UNCHANGED <<owner, edit, catalog, request, out>>

OwnerSwitched ==
    /\ owner # "deleted"
    /\ owner' = IF owner = "active" THEN "disabled" ELSE "active"
    /\ UNCHANGED <<key, edit, catalog, request, out>>

\* The deletion's transaction revokes the keys it finds active and unexpired.
OwnerDeleted ==
    /\ owner = "active" /\ owner' = "deleted"
    /\ key' = IF key = "active" THEN "revoked" ELSE key
    /\ UNCHANGED <<edit, catalog, request, out>>

----------------------------------------------------------------------------
(* A call: authentication, routing *)

Moves(c, pc) == request' = [request EXCEPT ![c] = [IF pc = "end" THEN [Idle EXCEPT !.late = request[c].late] ELSE @ EXCEPT !.pc = pc]]

KeyRead(c) ==
    /\ request[c].pc = "idle" /\ key # "none"
    /\ request' = [request EXCEPT ![c].late = owner = "deleted",
                                  ![c].pc = IF key = "active" THEN "key" ELSE "end"]
    /\ UNCHANGED <<key, owner, edit, catalog, out>>

\* Mutant: the key's own row is taken for authority.
OwnerStands_Assumed == TRUE

OwnerStands == owner = "active"

\* The owner's row is locked in share mode: here the call takes its authority, once.
Admitted(c) ==
    /\ request[c].pc = "key"
    /\ \/ OwnerStands /\ \E acl \in SUBSET CatalogModels :
             request' = [request EXCEPT ![c].pc = "admitted", ![c].acl = acl]
       \/ Moves(c, "end")
    /\ UNCHANGED <<key, owner, edit, catalog, out>>

Asks(c, kind) ==
    /\ request[c].pc = "admitted"
    /\ \/ \E m \in CatalogModels : request' = [request EXCEPT ![c].pc = "acl", ![c].model = m, ![c].kind = kind]
       \/ Moves(c, "end")
    /\ UNCHANGED <<key, owner, edit, catalog, out>>

\* A structured body is decoded, or refused, before its model is authorized.
DecodesChat(c) == Asks(c, "chat")
DecodesResponses(c) == Asks(c, "responses")

\* Of a chat body that may be passed through only the routing is read so far.
ReadsRouting(c) == Asks(c, "raw")

AsksDetail(c) == Asks(c, "detail")

----------------------------------------------------------------------------
(* The catalog: the mutex is released while the upstream is asked. *)

Visible(models) == models \ catalog.off

Chosen(c, listed) == Moves(c, IF request[c].model \in listed
                              THEN IF request[c].kind = "detail" THEN "detail" ELSE "body" ELSE "end")

ListModels(c) ==
    /\ request[c].pc = "acl"
    /\ \/ request[c].model \notin request[c].acl /\ Moves(c, "end") /\ UNCHANGED catalog
       \/ /\ request[c].model \in request[c].acl /\ catalog.age = "fresh"
          /\ Chosen(c, Visible(catalog.models)) /\ UNCHANGED catalog
       \/ /\ request[c].model \in request[c].acl /\ catalog.age # "fresh"
          /\ catalog' = [catalog EXCEPT !.gen = @ + 1]
          /\ request' = [request EXCEPT ![c].pc = "listing", ![c].gen = catalog.gen + 1,
                                        ![c].cache = catalog.models, ![c].usable = catalog.age = "stale"]
    /\ UNCHANGED <<key, owner, edit, out>>

\* Mutant: whatever answer comes last is kept.
Newest_Last(gen, current) == TRUE

Newest(gen, current) == gen = current

\* A catalog that lists a model again brings it back; a failed refresh serves what was read before.
CatalogReturns(c) ==
    /\ request[c].pc = "listing"
    /\ \/ \E answer \in SUBSET CatalogModels :
             IF Newest(request[c].gen, catalog.gen)
             THEN /\ catalog' = [catalog EXCEPT !.models = answer, !.held = request[c].gen, !.age = "fresh", !.off = @ \ answer]
                  /\ Chosen(c, answer)
             ELSE UNCHANGED catalog /\ Chosen(c, Visible(answer))
       \/ /\ IF request[c].usable THEN Chosen(c, Visible(request[c].cache)) ELSE Moves(c, "end")
          /\ UNCHANGED catalog
    /\ UNCHANGED <<key, owner, edit, out>>

GetModel(c) ==
    LET m == request[c].model IN
    /\ request[c].pc = "detail"
    /\ IF m \in catalog.off \cup catalog.detail THEN Moves(c, "end") /\ UNCHANGED catalog
       ELSE /\ catalog' = [catalog EXCEPT !.dgen[m] = @ + 1]
            /\ request' = [request EXCEPT ![c].pc = "fetching", ![c].gen = catalog.dgen[m] + 1]
    /\ UNCHANGED <<key, owner, edit, out>>

DetailReturns(c) ==
    LET m == request[c].model
        newest == Newest(request[c].gen, catalog.dgen[m]) IN
    /\ request[c].pc = "fetching"
    /\ \/ catalog' = IF newest THEN [catalog EXCEPT !.off = @ \cup {m}, !.detail = @ \ {m}] ELSE catalog
       \/ catalog' = IF newest THEN [catalog EXCEPT !.detail = @ \cup {m}] ELSE catalog
       \/ UNCHANGED catalog
    /\ Moves(c, "end")
    /\ UNCHANGED <<key, owner, edit, out>>

CacheAges ==
    /\ \/ catalog.age \in {"fresh", "stale"} /\ catalog' = [catalog EXCEPT !.age = IF @ = "fresh" THEN "stale" ELSE "old"]
       \/ catalog.detail # {} /\ catalog' = [catalog EXCEPT !.detail = {}]
    /\ UNCHANGED <<key, owner, edit, request, out>>

----------------------------------------------------------------------------
(* The upstream and the stream *)

\* A raw body of a model without passthrough is decoded like any other, without a second authorization.
SanitizesRaw(c) ==
    /\ request[c].pc = "body" /\ request[c].kind = "raw"
    /\ \/ request' = [request EXCEPT ![c].kind = "chat", ![c].pc = "upstream"]
       \/ request' = [request EXCEPT ![c].kind = "chat"]
       \/ Moves(c, "end")
    /\ UNCHANGED <<key, owner, edit, catalog, out>>

Encodes(c) ==
    /\ request[c].pc = "body" /\ request[c].kind # "raw"
    /\ Moves(c, "upstream") \/ Moves(c, "end")
    /\ UNCHANGED <<key, owner, edit, catalog, out>>

Invokes(c) ==
    /\ request[c].pc = "upstream"
    /\ \E pc \in {"stream", "whole", "end"} : Moves(c, pc)
    /\ UNCHANGED <<key, owner, edit, catalog, out>>

\* The whole answer is projected before anything is sent.
ProjectsWhole(c) ==
    /\ request[c].pc = "whole"
    /\ Moves(c, "end")
    /\ \E end \in {"none", "completed"} : out' = [out EXCEPT ![c].end = end]
    /\ UNCHANGED <<key, owner, edit, catalog>>

\* Chat frames are relayed as they come; the client gets the upstream's [DONE], or an error of the gateway's own.
RelaysChat(c) ==
    /\ request[c].pc = "stream" /\ request[c].kind = "chat"
    /\ \/ out' = [out EXCEPT ![c].started = TRUE] /\ UNCHANGED request
       \/ out' = [out EXCEPT ![c].end = "completed"] /\ Moves(c, "end")
       \/ out' = [out EXCEPT ![c].end = IF out[c].started THEN "failed" ELSE "none"] /\ Moves(c, "end")
    /\ UNCHANGED <<key, owner, edit, catalog>>

Responding(c) == request[c].pc = "stream" /\ request[c].kind = "responses"

\* Mutant: what was buffered before the tool's name is never sent.
Announced_Partial(o, n) == n

Announced(o, n) == IF o.open THEN n ELSE o.got + n

\* A chunk with a piece of a tool call: identity, name and arguments come in any order.
AcceptsTool(c) ==
    LET o == out[c] IN
    /\ Responding(c)
    /\ \E id, name \in BOOLEAN, n \in 0 .. 1 :
        LET opens == (o.id \/ id) /\ (o.name \/ name) IN
        /\ o.got + n <= MaxPieces
        /\ out' = [out EXCEPT ![c] = [o EXCEPT !.started = TRUE, !.tool = TRUE, !.id = @ \/ id, !.name = @ \/ name, !.open = opens,
                                               !.got = @ + n, !.sent = IF opens THEN @ + Announced(o, n) ELSE @]]
    /\ UNCHANGED <<key, owner, edit, catalog, request>>

\* Text alone; a stream that breaks, or whose client is gone; [DONE]: a tool nobody named fails the answer.
AcceptsText(c) ==
    /\ Responding(c) /\ ~out[c].started
    /\ out' = [out EXCEPT ![c].started = TRUE]
    /\ UNCHANGED <<key, owner, edit, catalog, request>>

Nameless(o) == o.tool /\ ~o.open

StreamFails(c) ==
    /\ Responding(c)
    /\ out' = IF out[c].started THEN [out EXCEPT ![c].end = "failed"] ELSE out
    /\ Moves(c, "end")
    /\ UNCHANGED <<key, owner, edit, catalog>>

Completes(c) ==
    /\ Responding(c) /\ out[c].started
    /\ out' = [out EXCEPT ![c].end = IF Nameless(out[c]) THEN "failed" ELSE "completed"]
    /\ Moves(c, "end")
    /\ UNCHANGED <<key, owner, edit, catalog>>

GatewayNext ==
    \/ AsksForKey \/ ChangesKey \/ KeyExpires \/ OwnerSwitched \/ OwnerDeleted \/ CacheAges
    \/ \E c \in Callers : \/ KeyRead(c) \/ Admitted(c) \/ DecodesChat(c) \/ DecodesResponses(c) \/ ReadsRouting(c) \/ AsksDetail(c)
                           \/ ListModels(c) \/ CatalogReturns(c) \/ GetModel(c) \/ DetailReturns(c)
                           \/ SanitizesRaw(c) \/ Encodes(c) \/ Invokes(c) \/ ProjectsWhole(c) \/ RelaysChat(c)
                           \/ AcceptsTool(c) \/ AcceptsText(c) \/ StreamFails(c) \/ Completes(c)

GatewaySpec == GatewayInit /\ [][GatewayNext]_gatewayVars

----------------------------------------------------------------------------
(* Properties *)

\* A call that began after its owner was deleted is not served, although the deletion and a request of
\* the owner that was already under way may leave the key active (gateway_token.go:264-276).
DeletedOwnerUnserved == \A c \in Callers : request[c].late => request[c].pc \in {"key", "end"}

\* Calls refresh the cache in any order: an answer never replaces that of a newer refresh, and a model
\* that a trusted 404 took out has no detail left to serve (whitelabel/service.go:303-391).
CacheCoherent == [][/\ catalog'.held >= catalog.held
                    /\ catalog'.off \cap catalog'.detail = {}]_gatewayVars

\* The client of a Responses stream gets every byte of a tool call's arguments, in whatever pieces its
\* identity came, and an answer that completed left nothing unsaid (responses_stream.go:93-252).
ArgumentsWhole == \A c \in Callers :
    /\ out[c].open => out[c].sent = out[c].got
    /\ out[c].end = "completed" => out[c].sent = out[c].got
=============================================================================
