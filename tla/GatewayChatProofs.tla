------------------------- MODULE GatewayChatProofs -------------------------
(***************************************************************************)
(* The two ways to a model that keep no generation record.  Of the         *)
(* OpenAI-compatible gateway: a deleted owner is not served, the cache     *)
(* does not fall back, and a tool call reaches its client whole, for any   *)
(* number of calls and models.  Of the platform's own chat: a streamed     *)
(* comparison of any number of models tells what is stored.                *)
(***************************************************************************)
EXTENDS GatewayCalls, PlatformChat, TLAPS

----------------------------------------------------------------------------
(* Calls of the gateway *)


Kinds == {"none", "chat", "responses", "raw", "detail"}

\* The steps of a call that has chosen a model.
Routed == {"acl", "listing", "detail", "fetching", "body", "upstream", "stream", "whole"}

RequestType == [pc : {"idle", "key", "admitted", "end"} \cup Routed, late : BOOLEAN, acl : SUBSET CatalogModels,
                model : CatalogModels \cup {"none"}, kind : Kinds, gen : Nat, cache : SUBSET CatalogModels,
                usable : BOOLEAN]

OutputType == [started : BOOLEAN, tool : BOOLEAN, id : BOOLEAN, name : BOOLEAN, open : BOOLEAN, got : Nat, sent : Nat,
               end : {"none", "completed", "failed"}]

CatalogType == [gen : Nat, held : Nat, models : SUBSET CatalogModels, age : {"none", "fresh", "stale", "old"},
                off : SUBSET CatalogModels, detail : SUBSET CatalogModels, dgen : [CatalogModels -> Nat]]

GatewayTypeOK ==
    /\ key \in {"none", "active", "expired", "disabled", "revoked"}
    /\ owner \in {"active", "disabled", "deleted"}
    /\ edit \in {"none", "create", "active", "disabled", "revoked"}
    /\ catalog \in CatalogType
    /\ request \in [Callers -> RequestType]
    /\ out \in [Callers -> OutputType]
    /\ \A c \in Callers : request[c].pc \in Routed => request[c].model \in CatalogModels

\* A call that began late still waits for the owner's row, or is over.
Turned == \A c \in Callers : request[c].late => owner = "deleted" /\ request[c].pc \in {"key", "end"}

\* No refresh is ahead of the count of refreshes, and the newest detail asked for is not of a model taken out.
Counted ==
    /\ catalog.held <= catalog.gen
    /\ catalog.off \cap catalog.detail = {}
    /\ \A c \in Callers : request[c].pc = "fetching" =>
          /\ request[c].gen <= catalog.dgen[request[c].model]
          /\ request[c].gen = catalog.dgen[request[c].model] => request[c].model \notin catalog.off
    /\ \A c, d \in Callers : /\ request[c].pc = "fetching" /\ request[d].pc = "fetching" /\ c # d
                             => request[c].model # request[d].model \/ request[c].gen # request[d].gen

\* What was got was sent once the call is open, and nothing of it before; only a Responses stream has a tool.
Whole ==
    \A c \in Callers :
        /\ out[c].open <=> out[c].id /\ out[c].name
        /\ out[c].sent = IF out[c].open THEN out[c].got ELSE 0
        /\ ~out[c].tool => out[c].got = 0
        /\ request[c].pc \notin {"stream", "end"} => out[c] = NoOutput
        /\ request[c].pc = "stream" => out[c].end = "none" /\ (request[c].kind # "responses" => ~out[c].tool)
        /\ out[c].end = "completed" => out[c].sent = out[c].got

GatewayInv == GatewayTypeOK /\ Turned /\ Counted /\ Whole

----------------------------------------------------------------------------
(* What the steps of a call share *)

LEMMA GatewayInvInit == GatewayInit => GatewayInv
BY DEF GatewayInit, GatewayInv, GatewayTypeOK, Turned, Counted, Whole, Idle, NoOutput, RequestType, OutputType,
       CatalogType, Kinds, Routed

\* A step of one call leaves the other calls alone.
Only(c) == /\ request' \in [Callers -> RequestType]
           /\ \A d \in Callers : d # c => request'[d] = request[d]
           /\ request'[c].pc \in Routed => request'[c].model \in CatalogModels

LEMMA MovesFields ==
    ASSUME GatewayTypeOK, NEW c \in Callers, NEW pc \in {"end"} \cup Routed, Moves(c, pc),
           pc \in Routed => request[c].pc \in Routed
    PROVE  /\ Only(c) /\ request'[c].pc = pc /\ request'[c].late = request[c].late
           /\ pc # "end" => request'[c].kind = request[c].kind
<1>0. request[c] \in RequestType
  BY DEF GatewayTypeOK
<1>1. CASE pc = "end"
  <2> DEFINE q == [Idle EXCEPT !.late = request[c].late, !.pc = "end"]
  <2>1. q \in RequestType /\ q.pc = "end" /\ q.late = request[c].late
    BY <1>0 DEF Idle, RequestType, Kinds
  <2>2. request' = [request EXCEPT ![c] = q]
    BY <1>1 DEF Moves, Idle
  <2> HIDE DEF q
  <2> QED
    BY <1>1, <2>1, <2>2 DEF GatewayTypeOK, Only, Routed
<1>2. CASE pc # "end"
  <2> DEFINE q == [request[c] EXCEPT !.pc = pc]
  <2>1. /\ q \in RequestType /\ q.pc = pc /\ q.late = request[c].late /\ q.kind = request[c].kind
        /\ q.model = request[c].model
    BY <1>0, <1>2 DEF RequestType
  <2>2. request' = [request EXCEPT ![c] = q]
    BY <1>2 DEF Moves
  <2> HIDE DEF q
  <2> QED
    BY <1>2, <2>1, <2>2 DEF GatewayTypeOK, Only
<1> QED
  BY <1>1, <1>2

\* Nobody is served late as long as late calls go to their end.
LEMMA TurnedKeeps ==
    ASSUME GatewayInv, NEW c \in Callers, Only(c), UNCHANGED owner,
           request'[c].late => request'[c].pc \in {"key", "end"} /\ (request[c].late \/ owner = "deleted")
    PROVE  Turned'
BY DEF GatewayInv, Turned, Only

\* The counts stand as long as the call does not come to fetch.
LEMMA CountedKeeps ==
    ASSUME GatewayInv, NEW c \in Callers, Only(c), UNCHANGED catalog, request'[c].pc # "fetching"
    PROVE  Counted'
BY DEF GatewayInv, Counted, Only

\* A call that tells nothing, starts its stream with nothing told, and may end.
LEMMA WholeKeeps ==
    ASSUME GatewayInv, NEW c \in Callers, Only(c), UNCHANGED out,
           request[c].pc # "end", request[c].pc = "stream" => request'[c].pc = "end"
    PROVE  Whole'
BY DEF GatewayInv, Whole, Only, NoOutput

----------------------------------------------------------------------------
(* The key, its owner and the ages of the cache *)

LEMMA SurroundingsKeep ==
    ASSUME GatewayInv, AsksForKey \/ ChangesKey \/ KeyExpires \/ OwnerSwitched \/ OwnerDeleted \/ CacheAges
    PROVE  GatewayInv'
<1>1. CASE AsksForKey \/ ChangesKey \/ KeyExpires \/ OwnerSwitched \/ OwnerDeleted
  <2>1. UNCHANGED <<catalog, request, out>> /\ (owner = "deleted" => owner' = owner)
    BY <1>1 DEF AsksForKey, ChangesKey, KeyExpires, OwnerSwitched, OwnerDeleted
  <2>2. GatewayTypeOK'
    BY <1>1, <2>1 DEF GatewayInv, GatewayTypeOK, AsksForKey, ChangesKey, KeyExpires, OwnerSwitched, OwnerDeleted
  <2> QED
    BY <2>1, <2>2 DEF GatewayInv, Turned, Counted, Whole
<1>2. CASE CacheAges
  <2>1. UNCHANGED <<key, owner, edit, request, out>>
    BY <1>2 DEF CacheAges
  <2>2. /\ catalog' \in CatalogType /\ catalog'.held = catalog.held /\ catalog'.gen = catalog.gen
        /\ catalog'.off = catalog.off /\ catalog'.dgen = catalog.dgen /\ catalog'.detail \subseteq catalog.detail
    <3>1. catalog \in CatalogType
      BY DEF GatewayInv, GatewayTypeOK
    <3> QED
      BY <1>2, <3>1 DEF CacheAges, CatalogType
  <2>3. GatewayTypeOK' /\ Turned' /\ Whole'
    BY <2>1, <2>2 DEF GatewayInv, GatewayTypeOK, Turned, Whole
  <2>4. Counted'
    BY <2>1, <2>2 DEF GatewayInv, Counted
  <2> QED
    BY <2>3, <2>4 DEF GatewayInv
<1> QED
  BY <1>1, <1>2

----------------------------------------------------------------------------
(* Authentication and routing *)

\* A step that changes one call's request and nothing else.
LEMMA RequestKeeps ==
    ASSUME GatewayInv, NEW c \in Callers, Only(c), UNCHANGED <<key, owner, edit, catalog, out>>,
           request'[c].late => request'[c].pc \in {"key", "end"} /\ (request[c].late \/ owner = "deleted"),
           request[c].pc \notin {"end", "stream"}, request'[c].pc # "fetching"
    PROVE  GatewayInv'
<1>1. GatewayTypeOK'
  BY DEF GatewayInv, GatewayTypeOK, Only
<1> QED
  BY <1>1, TurnedKeeps, CountedKeeps, WholeKeeps DEF GatewayInv

LEMMA KeyReadKeeps == ASSUME GatewayInv, NEW c \in Callers, KeyRead(c) PROVE GatewayInv'
<1> DEFINE pc == IF key = "active" THEN "key" ELSE "end"
           q == [request[c] EXCEPT !.late = (owner = "deleted"), !.pc = pc]
<1>0. /\ request[c] \in RequestType /\ request \in [Callers -> RequestType] /\ request[c].pc = "idle"
      /\ UNCHANGED <<key, owner, edit, catalog, out>>
  BY DEF GatewayInv, GatewayTypeOK, KeyRead
<1>1. q \in RequestType /\ (q.late => owner = "deleted") /\ q.pc = pc
  BY <1>0 DEF RequestType
<1>2. request' = [request EXCEPT ![c] = q]
  BY <1>0 DEF KeyRead
<1>3. pc \in {"key", "end"}
  OBVIOUS
<1> HIDE DEF q, pc
<1>4. Only(c) /\ request'[c] = q
  BY <1>0, <1>1, <1>2, <1>3 DEF Only, Routed
<1> QED
  BY <1>0, <1>1, <1>3, <1>4, RequestKeeps

LEMMA AdmittedKeeps == ASSUME GatewayInv, NEW c \in Callers, Admitted(c) PROVE GatewayInv'
<1>0. request[c] \in RequestType /\ request \in [Callers -> RequestType] /\ request[c].pc = "key"
  BY DEF GatewayInv, GatewayTypeOK, Admitted
<1>1. CASE Moves(c, "end")
  BY <1>0, <1>1, MovesFields, RequestKeeps DEF Admitted, GatewayInv, Turned, Routed
<1>2. ASSUME OwnerStands, NEW acl \in SUBSET CatalogModels,
             request' = [request EXCEPT ![c].pc = "admitted", ![c].acl = acl]
      PROVE  GatewayInv'
  <2> DEFINE q == [request[c] EXCEPT !.pc = "admitted", !.acl = acl]
  <2>1. q \in RequestType /\ q.pc = "admitted" /\ q.late = request[c].late
    BY <1>0 DEF RequestType
  <2>2. request' = [request EXCEPT ![c] = q]
    BY <1>0, <1>2
  <2> HIDE DEF q
  <2>3. Only(c) /\ request'[c] = q
    BY <1>0, <2>1, <2>2 DEF Only, Routed
  <2>4. ~request[c].late
    BY <1>2 DEF OwnerStands, GatewayInv, Turned
  <2> QED
    BY <1>0, <2>1, <2>3, <2>4, RequestKeeps DEF Admitted
<1> QED
  BY <1>1, <1>2 DEF Admitted

LEMMA AsksKeeps ==
    ASSUME GatewayInv, NEW c \in Callers, NEW kind \in Kinds, Asks(c, kind) PROVE GatewayInv'
<1>0. /\ request[c] \in RequestType /\ request \in [Callers -> RequestType]
      /\ request[c].pc = "admitted" /\ ~request[c].late /\ UNCHANGED <<key, owner, edit, catalog, out>>
  <2>1. request[c].pc = "admitted" /\ UNCHANGED <<key, owner, edit, catalog, out>>
    BY Zenon DEF Asks
  <2> QED
    BY <2>1 DEF GatewayInv, GatewayTypeOK, Turned
<1>1. CASE Moves(c, "end")
  BY <1>0, <1>1, MovesFields, RequestKeeps DEF GatewayInv, Routed
<1>2. ASSUME NEW m \in CatalogModels, request' = [request EXCEPT ![c].pc = "acl", ![c].model = m, ![c].kind = kind]
      PROVE  GatewayInv'
  <2> DEFINE q == [request[c] EXCEPT !.pc = "acl", !.model = m, !.kind = kind]
  <2>1. q \in RequestType /\ q.pc = "acl" /\ q.late = request[c].late /\ q.model = m
    BY <1>0 DEF RequestType, Routed
  <2>2. request' = [request EXCEPT ![c] = q]
    BY <1>0, <1>2
  <2> HIDE DEF q
  <2>3. Only(c) /\ request'[c] = q
    BY <1>0, <2>1, <2>2 DEF Only
  <2> QED
    BY <1>0, <2>1, <2>3, RequestKeeps
<1> QED
  BY <1>1, <1>2, Zenon DEF Asks

LEMMA BodyKeeps ==
    ASSUME GatewayInv, NEW c \in Callers, SanitizesRaw(c) \/ Encodes(c) \/ Invokes(c) PROVE GatewayInv'
<1>0. /\ request[c] \in RequestType /\ request \in [Callers -> RequestType] /\ GatewayTypeOK
      /\ request[c].pc \in {"body", "upstream"} /\ ~request[c].late /\ request[c].model \in CatalogModels
      /\ UNCHANGED <<key, owner, edit, catalog, out>>
  BY DEF GatewayInv, GatewayTypeOK, Turned, Routed, SanitizesRaw, Encodes, Invokes
<1>1. ASSUME NEW pc \in {"upstream", "stream", "whole", "end"}, Moves(c, pc) PROVE GatewayInv'
  <2>1. /\ Only(c) /\ request'[c].pc = pc /\ request'[c].late = request[c].late
    BY <1>0, <1>1, MovesFields DEF Routed
  <2> QED
    BY <1>0, <1>1, <2>1, RequestKeeps
<1>2. ASSUME NEW pc \in {"body", "upstream"}, request' = [request EXCEPT ![c] = [@ EXCEPT !.kind = "chat", !.pc = pc]]
      PROVE  GatewayInv'
  <2> DEFINE q == [request[c] EXCEPT !.kind = "chat", !.pc = pc]
  <2>1. q \in RequestType /\ q.pc = pc /\ q.late = request[c].late /\ q.model = request[c].model
    BY <1>0 DEF RequestType, Routed, Kinds
  <2>2. request' = [request EXCEPT ![c] = q]
    BY <1>0, <1>2
  <2> HIDE DEF q
  <2>3. Only(c) /\ request'[c] = q
    BY <1>0, <2>1, <2>2 DEF Only
  <2> QED
    BY <1>0, <2>1, <2>3, RequestKeeps
<1>3. CASE SanitizesRaw(c)
  <2>1. request[c].pc = "body"
    BY <1>3 DEF SanitizesRaw
  <2>2. CASE request' = [request EXCEPT ![c].kind = "chat", ![c].pc = "upstream"]
    <3>1. request' = [request EXCEPT ![c] = [@ EXCEPT !.kind = "chat", !.pc = "upstream"]]
      BY <1>0, <2>2
    <3> QED
      BY <3>1, <1>2
  <2>3. CASE request' = [request EXCEPT ![c].kind = "chat"]
    <3>1. request' = [request EXCEPT ![c] = [@ EXCEPT !.kind = "chat", !.pc = "body"]]
      BY <1>0, <2>1, <2>3 DEF RequestType
    <3> QED
      BY <3>1, <1>2
  <2> QED
    BY <1>1, <1>3, <2>2, <2>3 DEF SanitizesRaw
<1>4. CASE Encodes(c) \/ Invokes(c)
  BY <1>1, <1>4 DEF Encodes, Invokes
<1> QED
  BY <1>3, <1>4

----------------------------------------------------------------------------
(* The catalogue *)

\* A step of a call that is not told anything: all but the counts.
LEMMA CatalogKeeps ==
    ASSUME GatewayInv, NEW c \in Callers, Only(c), catalog' \in CatalogType, Counted', UNCHANGED <<key, owner, edit, out>>,
           request[c].pc \in Routed \ {"stream"}, request'[c].late = request[c].late
    PROVE  GatewayInv'
<1>1. GatewayTypeOK'
  BY DEF GatewayInv, GatewayTypeOK, Only
<1>2. ~request[c].late /\ request[c].pc \notin {"end", "stream"}
  BY DEF GatewayInv, Turned, Routed
<1> QED
  BY <1>1, <1>2, TurnedKeeps, WholeKeeps DEF GatewayInv

\* What a call chooses from a list is to be asked for, or it ends.
LEMMA ChosenMoves ==
    ASSUME GatewayInv, NEW c \in Callers, NEW listed, Chosen(c, listed), request[c].pc \in Routed
    PROVE  /\ Only(c) /\ request'[c].late = request[c].late /\ request'[c].pc \in {"detail", "body", "end"}
<1>1. \E pc \in {"detail", "body", "end"} : Moves(c, pc)
  BY DEF Chosen
<1> QED
  BY <1>1, MovesFields DEF GatewayInv, Routed

LEMMA ListKeeps == ASSUME GatewayInv, NEW c \in Callers, ListModels(c) PROVE GatewayInv'
<1>0. /\ request[c] \in RequestType /\ request \in [Callers -> RequestType] /\ GatewayTypeOK
      /\ catalog \in CatalogType /\ request[c].model \in CatalogModels
      /\ request[c].pc = "acl" /\ UNCHANGED <<key, owner, edit, out>>
  BY DEF GatewayInv, GatewayTypeOK, Routed, ListModels
<1>1. CASE UNCHANGED catalog /\ (Moves(c, "end") \/ Chosen(c, Visible(catalog.models)))
  <2>1. Only(c) /\ request'[c].late = request[c].late /\ request'[c].pc \in {"detail", "body", "end"}
    BY <1>0, <1>1, MovesFields, ChosenMoves DEF Routed
  <2>2. Counted'
    BY <1>1, <2>1, CountedKeeps
  <2> QED
    BY <1>0, <1>1, <2>1, <2>2, CatalogKeeps DEF Routed
<1>2. CASE /\ catalog' = [catalog EXCEPT !.gen = @ + 1]
           /\ request' = [request EXCEPT ![c].pc = "listing", ![c].gen = catalog.gen + 1,
                                         ![c].cache = catalog.models, ![c].usable = catalog.age = "stale"]
  <2> DEFINE q == [request[c] EXCEPT !.pc = "listing", !.gen = catalog.gen + 1, !.cache = catalog.models,
                                     !.usable = (catalog.age = "stale")]
  <2>1. catalog.gen + 1 \in Nat /\ catalog.models \in SUBSET CatalogModels /\ (catalog.age = "stale") \in BOOLEAN
    BY <1>0 DEF CatalogType
  <2>2. q \in RequestType /\ q.pc = "listing" /\ q.late = request[c].late /\ q.model = request[c].model
    BY <1>0, <2>1 DEF RequestType, Routed
  <2>3. request' = [request EXCEPT ![c] = q]
    BY <1>0, <1>2
  <2> HIDE DEF q
  <2>4. Only(c) /\ request'[c] = q
    BY <1>0, <2>2, <2>3 DEF Only
  <2>5. /\ catalog' \in CatalogType /\ catalog'.gen = catalog.gen + 1 /\ catalog'.held = catalog.held
        /\ catalog'.off = catalog.off /\ catalog'.detail = catalog.detail /\ catalog'.dgen = catalog.dgen
    BY <1>0, <1>2 DEF CatalogType
  <2>6. catalog.gen \in Nat /\ catalog.held \in Nat
    BY <1>0 DEF CatalogType
  <2>7. Counted'
    BY <2>2, <2>4, <2>5, <2>6 DEF GatewayInv, Counted, Only
  <2> QED
    BY <1>0, <2>2, <2>4, <2>5, <2>7, CatalogKeeps DEF Routed
<1> QED
  BY <1>1, <1>2 DEF ListModels

LEMMA ReturnsKeeps == ASSUME GatewayInv, NEW c \in Callers, CatalogReturns(c) PROVE GatewayInv'
<1>0. /\ GatewayTypeOK /\ catalog \in CatalogType /\ request[c].model \in CatalogModels
      /\ request[c] \in RequestType /\ request[c].pc = "listing" /\ UNCHANGED <<key, owner, edit, out>>
  <2>1. request[c].pc = "listing" /\ UNCHANGED <<key, owner, edit, out>>
    BY Zenon DEF CatalogReturns
  <2> QED
    BY <2>1 DEF GatewayInv, GatewayTypeOK, Routed
<1>1. Only(c) /\ request'[c].late = request[c].late /\ request'[c].pc \in {"detail", "body", "end"}
  <2>1. Moves(c, "end") \/ \E listed \in SUBSET CatalogModels : Chosen(c, listed)
    <3>1. \A S \in SUBSET CatalogModels : Visible(S) \in SUBSET CatalogModels
      BY DEF Visible
    <3>2. request[c].cache \in SUBSET CatalogModels
      BY <1>0 DEF RequestType
    <3>3. \/ \E answer \in SUBSET CatalogModels : Chosen(c, answer) \/ Chosen(c, Visible(answer))
          \/ Chosen(c, Visible(request[c].cache)) \/ Moves(c, "end")
      BY Zenon DEF CatalogReturns
    <3> QED
      BY <3>1, <3>2, <3>3
  <2> QED
    BY <1>0, <2>1, MovesFields, ChosenMoves DEF Routed
<1>2. CASE UNCHANGED catalog
  BY <1>0, <1>1, <1>2, CountedKeeps, CatalogKeeps DEF Routed
<1>3. ASSUME NEW answer \in SUBSET CatalogModels, Newest(request[c].gen, catalog.gen),
             catalog' = [catalog EXCEPT !.models = answer, !.held = request[c].gen, !.age = "fresh", !.off = @ \ answer]
      PROVE  GatewayInv'
  <2>1. request[c].gen \in Nat /\ request[c].gen = catalog.gen
    BY <1>0, <1>3 DEF RequestType, Newest
  <2>2. /\ catalog' \in CatalogType /\ catalog'.held = catalog.gen /\ catalog'.gen = catalog.gen
        /\ catalog'.off \subseteq catalog.off /\ catalog'.detail = catalog.detail /\ catalog'.dgen = catalog.dgen
    BY <1>0, <1>3, <2>1 DEF CatalogType
  <2>3. Counted'
    BY <1>1, <2>1, <2>2 DEF GatewayInv, Counted, Only
  <2> QED
    BY <1>0, <1>1, <2>2, <2>3, CatalogKeeps DEF Routed
<1> QED
  BY <1>2, <1>3, Zenon DEF CatalogReturns

LEMMA GetModelKeeps == ASSUME GatewayInv, NEW c \in Callers, GetModel(c) PROVE GatewayInv'
<1>0. /\ GatewayTypeOK /\ catalog \in CatalogType /\ request \in [Callers -> RequestType]
      /\ request[c] \in RequestType /\ request[c].pc = "detail" /\ UNCHANGED <<key, owner, edit, out>>
  BY DEF GatewayInv, GatewayTypeOK, GetModel
<1>1. PICK m \in CatalogModels : m = request[c].model
  BY <1>0 DEF GatewayTypeOK, Routed
<1>2. CASE UNCHANGED catalog /\ Moves(c, "end")
  <2>1. Only(c) /\ request'[c].late = request[c].late /\ request'[c].pc = "end"
    BY <1>0, <1>2, MovesFields DEF Routed
  <2> QED
    BY <1>0, <1>2, <2>1, CountedKeeps, CatalogKeeps DEF Routed
<1>3. CASE /\ m \notin catalog.off \cup catalog.detail
           /\ catalog' = [catalog EXCEPT !.dgen[m] = @ + 1]
           /\ request' = [request EXCEPT ![c].pc = "fetching", ![c].gen = catalog.dgen[m] + 1]
  <2> DEFINE n == catalog.dgen[m] + 1
             q == [request[c] EXCEPT !.pc = "fetching", !.gen = n]
  <2>1. catalog.dgen \in [CatalogModels -> Nat] /\ catalog.dgen[m] \in Nat /\ n \in Nat
    BY <1>0 DEF CatalogType
  <2>2. /\ q \in RequestType /\ q.pc = "fetching" /\ q.late = request[c].late /\ q.model = m /\ q.gen = n
    BY <1>0, <1>1, <2>1 DEF RequestType, Routed
  <2>3. request' = [request EXCEPT ![c] = q]
    BY <1>0, <1>3
  <2>4. [catalog.dgen EXCEPT ![m] = n] \in [CatalogModels -> Nat]
    BY <2>1
  <2>5. /\ catalog' \in CatalogType /\ catalog'.gen = catalog.gen /\ catalog'.held = catalog.held
        /\ catalog'.off = catalog.off /\ catalog'.detail = catalog.detail
        /\ catalog'.dgen = [catalog.dgen EXCEPT ![m] = n]
    BY <1>0, <1>3, <2>1, <2>4 DEF CatalogType
  <2>6. catalog'.dgen[m] = n /\ \A k \in CatalogModels : k # m => catalog'.dgen[k] = catalog.dgen[k]
    BY <2>1, <2>5
  <2>7. n > catalog.dgen[m]
    BY <2>1
  <2> HIDE DEF q, n
  <2>8. Only(c) /\ request'[c] = q
    BY <1>0, <2>2, <2>3 DEF Only
  <2>9. ASSUME NEW d \in Callers, request'[d].pc = "fetching"
        PROVE  /\ request'[d].gen <= catalog'.dgen[request'[d].model]
               /\ request'[d].gen = catalog'.dgen[request'[d].model] => request'[d].model \notin catalog'.off
    <3>1. CASE d = c
      <4>1. request'[d].model = m /\ request'[d].gen = n /\ catalog'.dgen[m] = n /\ n <= n
        BY <2>1, <2>2, <2>6, <2>8, <3>1
      <4>2. m \notin catalog'.off
        BY <1>3, <2>5
      <4> QED
        BY <4>1, <4>2
    <3>2. CASE d # c
      <4>1. /\ request'[d] = request[d] /\ request[d].gen \in Nat /\ request[d].model \in CatalogModels
            /\ request[d].gen <= catalog.dgen[request[d].model]
            /\ request[d].gen = catalog.dgen[request[d].model] => request[d].model \notin catalog.off
        BY <2>8, <2>9, <3>2 DEF GatewayInv, GatewayTypeOK, RequestType, Counted, Only, Routed
      <4> QED
        BY <2>1, <2>5, <2>6, <2>7, <4>1
    <3> QED
      BY <3>1, <3>2
  <2>10. ASSUME NEW d \in Callers, d # c, request'[d].pc = "fetching", request'[d].model = m
         PROVE  request'[d].gen # n
    <3>1. request[d].gen \in Nat /\ request[d].gen <= catalog.dgen[m] /\ request'[d] = request[d]
      BY <2>8, <2>10 DEF GatewayInv, GatewayTypeOK, RequestType, Counted, Only
    <3> QED
      BY <2>1, <2>7, <3>1
  <2>11. Counted'
    <3>1. catalog'.held <= catalog'.gen /\ catalog'.off \cap catalog'.detail = {}
      BY <2>5 DEF GatewayInv, Counted
    <3>2. ASSUME NEW d \in Callers, NEW e \in Callers,
                 request'[d].pc = "fetching", request'[e].pc = "fetching", d # e
          PROVE  request'[d].model # request'[e].model \/ request'[d].gen # request'[e].gen
      BY <2>2, <2>8, <2>10, <3>2 DEF GatewayInv, Counted, Only
    <3> QED
      BY <2>9, <3>1, <3>2 DEF Counted
  <2> QED
    BY <1>0, <2>2, <2>5, <2>8, <2>11, CatalogKeeps DEF Routed
<1> QED
  BY <1>1, <1>2, <1>3 DEF GetModel

LEMMA DetailKeeps == ASSUME GatewayInv, NEW c \in Callers, DetailReturns(c) PROVE GatewayInv'
<1>0. /\ GatewayTypeOK /\ catalog \in CatalogType /\ request[c].pc = "fetching" /\ Moves(c, "end")
      /\ UNCHANGED <<key, owner, edit, out>>
  BY DEF GatewayInv, GatewayTypeOK, DetailReturns
<1>1. PICK m \in CatalogModels : m = request[c].model
  BY <1>0 DEF GatewayTypeOK, Routed
<1>2. Only(c) /\ request'[c].late = request[c].late /\ request'[c].pc = "end"
  BY <1>0, MovesFields DEF Routed
<1>3. CASE UNCHANGED catalog
  BY <1>0, <1>2, <1>3, CountedKeeps, CatalogKeeps DEF Routed
<1>4. ASSUME request[c].gen = catalog.dgen[m],
             \/ catalog' = [catalog EXCEPT !.off = @ \cup {m}, !.detail = @ \ {m}]
             \/ catalog' = [catalog EXCEPT !.detail = @ \cup {m}]
      PROVE  GatewayInv'
  <2>1. m \notin catalog.off
    BY <1>0, <1>1, <1>4 DEF GatewayInv, Counted
  <2>2. /\ catalog' \in CatalogType /\ catalog'.gen = catalog.gen /\ catalog'.held = catalog.held
        /\ catalog'.dgen = catalog.dgen /\ catalog'.off \subseteq catalog.off \cup {m}
    <3>1. catalog.off \cup {m} \in SUBSET CatalogModels /\ catalog.detail \cup {m} \in SUBSET CatalogModels
          /\ catalog.detail \ {m} \in SUBSET CatalogModels
      BY <1>0 DEF CatalogType
    <3>2. CASE catalog' = [catalog EXCEPT !.off = @ \cup {m}, !.detail = @ \ {m}]
      BY <1>0, <3>1, <3>2 DEF CatalogType
    <3>3. CASE catalog' = [catalog EXCEPT !.detail = @ \cup {m}]
      BY <1>0, <3>1, <3>3 DEF CatalogType
    <3> QED
      BY <1>4, <3>2, <3>3
  <2>3. catalog'.off \cap catalog'.detail = {}
    BY <1>0, <1>4, <2>1 DEF CatalogType, GatewayInv, Counted
  <2>4. ASSUME NEW d \in Callers, d # c, request[d].pc = "fetching", request[d].gen = catalog.dgen[request[d].model]
        PROVE  request[d].model # m
    BY <1>0, <1>1, <1>4, <2>4 DEF GatewayInv, Counted
  <2>5. Counted'
    BY <1>2, <2>2, <2>3, <2>4 DEF GatewayInv, Counted, Only
  <2> QED
    BY <1>0, <1>2, <2>2, <2>5, CatalogKeeps DEF Routed
<1> QED
  BY <1>0, <1>1, <1>3, <1>4 DEF DetailReturns, Newest

----------------------------------------------------------------------------
(* The stream *)

\* An output that says what it got, once its call is open.
Honest(o) == /\ o \in OutputType /\ (o.open <=> o.id /\ o.name)
             /\ o.sent = IF o.open THEN o.got ELSE 0
             /\ ~o.tool => o.got = 0
             /\ o.end = "completed" => o.sent = o.got

\* A step of one call that tells its client something, and ends or streams on.
LEMMA OutputKeeps ==
    ASSUME GatewayInv, NEW c \in Callers, NEW o, Honest(o), out' = [out EXCEPT ![c] = o],
           UNCHANGED <<key, owner, edit, catalog>>, request[c].pc \in {"stream", "whole"},
           \/ Moves(c, "end")
           \/ /\ UNCHANGED request /\ request[c].pc = "stream" /\ o.end = "none"
              /\ request[c].kind # "responses" => ~o.tool
    PROVE  GatewayInv'
<1>0. request[c].pc \in Routed /\ ~request[c].late /\ GatewayTypeOK
  BY DEF GatewayInv, Turned, Routed
<1>1. /\ Only(c) /\ request'[c].late = request[c].late
      /\ \/ request'[c].pc = "end"
         \/ /\ request'[c] = request[c] /\ request[c].pc = "stream" /\ o.end = "none"
            /\ request[c].kind # "responses" => ~o.tool
  <2>1. CASE Moves(c, "end")
    BY <1>0, <2>1, MovesFields
  <2>2. CASE UNCHANGED request
    BY <1>0, <2>2, MovesFields DEF GatewayTypeOK, Only
  <2> QED
    BY <2>1, <2>2
<1>2. out' \in [Callers -> OutputType] /\ out'[c] = o /\ \A d \in Callers : d # c => out'[d] = out[d]
  BY <1>0 DEF GatewayTypeOK, Honest
<1>3. GatewayTypeOK'
  BY <1>0, <1>1, <1>2 DEF GatewayTypeOK, Only
<1>4. Counted'
  BY <1>0, <1>1, CountedKeeps
<1>5. Whole'
  BY <1>1, <1>2 DEF GatewayInv, Whole, Only, Honest
<1> QED
  BY <1>0, <1>1, <1>3, <1>4, <1>5, TurnedKeeps DEF GatewayInv

\* What a call that is streamed or whole has told so far.
LEMMA HonestSoFar ==
    ASSUME GatewayInv, NEW c \in Callers, request[c].pc \in {"stream", "whole"}
    PROVE  /\ Honest(out[c]) /\ out[c].end = "none"
           /\ request[c].pc = "stream" /\ request[c].kind # "responses" => ~out[c].tool
           /\ request[c].pc = "whole" => ~out[c].tool
BY DEF GatewayInv, GatewayTypeOK, Whole, Honest, NoOutput

LEMMA EndsKeep ==
    ASSUME GatewayInv, NEW c \in Callers,
           ProjectsWhole(c) \/ RelaysChat(c) \/ AcceptsText(c) \/ StreamFails(c) \/ Completes(c)
    PROVE  GatewayInv'
<1>0. /\ request[c].pc \in {"stream", "whole"} /\ UNCHANGED <<key, owner, edit, catalog>>
      /\ out[c] \in OutputType /\ out \in [Callers -> OutputType]
  BY DEF ProjectsWhole, RelaysChat, AcceptsText, StreamFails, Completes, Responding, GatewayInv, GatewayTypeOK
<1>1. Honest(out[c]) /\ out[c].end = "none"
  BY <1>0, HonestSoFar
<1>2. CASE ProjectsWhole(c)
  <2>1. PICK end \in {"none", "completed"} : out' = [out EXCEPT ![c].end = end]
    BY <1>2 DEF ProjectsWhole
  <2> DEFINE o == [out[c] EXCEPT !.end = end]
  <2>2. ~out[c].tool
    BY <1>2, HonestSoFar DEF ProjectsWhole
  <2>3. Honest(o)
    BY <1>0, <1>1, <2>2 DEF Honest, OutputType
  <2>4. out' = [out EXCEPT ![c] = o] /\ Moves(c, "end")
    BY <1>0, <1>2, <2>1 DEF ProjectsWhole
  <2> QED
    BY <1>0, <2>3, <2>4, OutputKeeps
<1>3. ASSUME NEW end \in {"none", "failed", "completed"}, out' = [out EXCEPT ![c].end = end], Moves(c, "end"),
             end = "completed" => out[c].open \/ ~out[c].tool
      PROVE  GatewayInv'
  <2> DEFINE o == [out[c] EXCEPT !.end = end]
  <2>1. Honest(o)
    BY <1>0, <1>1, <1>3 DEF Honest, OutputType
  <2>2. out' = [out EXCEPT ![c] = o]
    BY <1>0, <1>3
  <2> QED
    BY <1>0, <1>3, <2>1, <2>2, OutputKeeps
<1>4. ASSUME out' = [out EXCEPT ![c].started = TRUE], UNCHANGED request, request[c].pc = "stream"
      PROVE  GatewayInv'
  <2> DEFINE o == [out[c] EXCEPT !.started = TRUE]
  <2>1. Honest(o) /\ o.end = "none" /\ o.tool = out[c].tool
    BY <1>0, <1>1, <1>4 DEF Honest, OutputType
  <2>2. out' = [out EXCEPT ![c] = o]
    BY <1>0, <1>4
  <2> QED
    BY <1>0, <1>4, <2>1, <2>2, OutputKeeps, HonestSoFar
<1>5. CASE RelaysChat(c)
  <2>1. request[c].pc = "stream" /\ ~out[c].tool
    BY <1>5, HonestSoFar DEF RelaysChat
  <2>2. \/ out' = [out EXCEPT ![c].started = TRUE] /\ UNCHANGED request
        \/ \E end \in {"none", "failed", "completed"} : out' = [out EXCEPT ![c].end = end] /\ Moves(c, "end")
    BY <1>5 DEF RelaysChat
  <2> QED
    BY <1>3, <1>4, <2>1, <2>2
<1>6. CASE AcceptsText(c)
  BY <1>4, <1>6 DEF AcceptsText, Responding
<1>7. CASE StreamFails(c)
  <2>1. CASE out[c].started
    BY <1>3, <1>7, <2>1 DEF StreamFails
  <2>2. CASE ~out[c].started
    <3>1. out' = [out EXCEPT ![c] = out[c]] /\ Moves(c, "end")
      BY <1>0, <1>7, <2>2 DEF StreamFails
    <3> QED
      BY <1>0, <1>1, <3>1, OutputKeeps
  <2> QED
    BY <2>1, <2>2
<1>8. CASE Completes(c)
  <2>1. CASE Nameless(out[c])
    BY <1>3, <1>8, <2>1 DEF Completes
  <2>2. CASE ~Nameless(out[c])
    BY <1>0, <1>3, <1>8, <2>2 DEF Completes, Nameless, OutputType
  <2> QED
    BY <2>1, <2>2
<1> QED
  BY <1>2, <1>5, <1>6, <1>7, <1>8

LEMMA ToolKeeps == ASSUME GatewayInv, NEW c \in Callers, AcceptsTool(c) PROVE GatewayInv'
<1>0. /\ request[c].pc = "stream" /\ request[c].kind = "responses" /\ UNCHANGED <<key, owner, edit, catalog, request>>
      /\ out[c] \in OutputType /\ out \in [Callers -> OutputType]
  BY DEF AcceptsTool, Responding, GatewayInv, GatewayTypeOK
<1>1. PICK id \in BOOLEAN, name \in BOOLEAN, n \in 0 .. 1 :
        LET s == out[c]
            opens == (s.id \/ id) /\ (s.name \/ name) IN
        out' = [out EXCEPT ![c] = [s EXCEPT !.started = TRUE, !.tool = TRUE, !.id = @ \/ id, !.name = @ \/ name,
                                            !.open = opens, !.got = @ + n,
                                            !.sent = IF opens THEN @ + Announced(s, n) ELSE @]]
  BY Zenon DEF AcceptsTool
<1> DEFINE s == out[c]
           opens == (s.id \/ id) /\ (s.name \/ name)
           total == s.got + n
           sent == IF opens THEN s.sent + Announced(s, n) ELSE s.sent
           o == [s EXCEPT !.started = TRUE, !.tool = TRUE, !.id = @ \/ id, !.name = @ \/ name,
                          !.open = opens, !.got = total, !.sent = sent]
<1>2. Honest(s) /\ s.end = "none"
  BY <1>0, HonestSoFar
<1>3. s.got \in Nat /\ s.sent \in Nat /\ s.sent = (IF s.open THEN s.got ELSE 0) /\ s.open \in BOOLEAN
  BY <1>2 DEF Honest, OutputType
<1>4. s.open => opens
  BY <1>0, <1>2 DEF Honest, OutputType
<1>5. total \in Nat /\ sent \in Nat /\ sent = IF opens THEN total ELSE 0
  BY <1>3, <1>4 DEF Announced
<1>6. s.id \in BOOLEAN /\ s.name \in BOOLEAN
  BY <1>0 DEF OutputType
<1>7. opens \in BOOLEAN /\ (s.id \/ id) \in BOOLEAN /\ (s.name \/ name) \in BOOLEAN
  OBVIOUS
<1>8. out' = [out EXCEPT ![c] = o]
  BY <1>1
<1> DEFINE known == s.id \/ id
           named == s.name \/ name
<1>9. o = [s EXCEPT !.started = TRUE, !.tool = TRUE, !.id = known, !.name = named, !.open = opens, !.got = total, !.sent = sent]
  OBVIOUS
<1>10. opens <=> known /\ named
  OBVIOUS
<1>11. known \in BOOLEAN /\ named \in BOOLEAN
  BY <1>7
<1> HIDE DEF o, known, named, total, sent, opens
<1>12. o \in OutputType
  BY <1>0, <1>5, <1>7, <1>9, <1>11 DEF OutputType
<1>13. /\ o.tool = TRUE /\ o.id = known /\ o.name = named /\ o.open = opens
       /\ o.got = total /\ o.sent = sent /\ o.end = s.end
  BY <1>0, <1>9 DEF OutputType
<1>14. Honest(o)
  <2>1. o.open <=> o.id /\ o.name
    BY <1>10, <1>13
  <2>2. o.sent = IF o.open THEN o.got ELSE 0
    BY <1>5, <1>13
  <2> QED
    BY <1>2, <1>12, <1>13, <2>1, <2>2 DEF Honest
<1> QED
  BY <1>0, <1>2, <1>8, <1>13, <1>14, OutputKeeps

----------------------------------------------------------------------------
(* The specification *)

LEMMA GatewayInvNext == ASSUME GatewayInv, [GatewayNext]_gatewayVars PROVE GatewayInv'
<1>1. CASE AsksForKey \/ ChangesKey \/ KeyExpires \/ OwnerSwitched \/ OwnerDeleted \/ CacheAges
  BY <1>1, SurroundingsKeep
<1>2. ASSUME NEW c \in Callers,
             \/ KeyRead(c) \/ Admitted(c) \/ DecodesChat(c) \/ DecodesResponses(c) \/ ReadsRouting(c) \/ AsksDetail(c)
             \/ ListModels(c) \/ CatalogReturns(c) \/ GetModel(c) \/ DetailReturns(c)
      PROVE  GatewayInv'
  <2>1. CASE DecodesChat(c) \/ DecodesResponses(c) \/ ReadsRouting(c) \/ AsksDetail(c)
    <3>1. \E kind \in Kinds : Asks(c, kind)
      BY <2>1 DEF DecodesChat, DecodesResponses, ReadsRouting, AsksDetail, Kinds
    <3> QED
      BY <3>1, AsksKeeps
  <2> QED
    BY <1>2, <2>1, KeyReadKeeps, AdmittedKeeps, ListKeeps, ReturnsKeeps, GetModelKeeps, DetailKeeps
<1>3. ASSUME NEW c \in Callers,
             \/ SanitizesRaw(c) \/ Encodes(c) \/ Invokes(c) \/ ProjectsWhole(c) \/ RelaysChat(c)
             \/ AcceptsTool(c) \/ AcceptsText(c) \/ StreamFails(c) \/ Completes(c)
      PROVE  GatewayInv'
  BY <1>3, BodyKeeps, EndsKeep, ToolKeeps
<1>4. CASE UNCHANGED gatewayVars
  BY <1>4 DEF gatewayVars, GatewayInv, GatewayTypeOK, Turned, Counted, Whole
<1> QED
  BY <1>1, <1>2, <1>3, <1>4 DEF GatewayNext

\* The calls stay typed, late calls wait or are over, the refreshes are counted and the streams are honest.
THEOREM GatewayInvariant == GatewaySpec => []GatewayInv
<1>1. GatewayInit => GatewayInv
  BY GatewayInvInit
<1>2. GatewayInv /\ [GatewayNext]_gatewayVars => GatewayInv'
  BY GatewayInvNext
<1> QED
  BY <1>1, <1>2, PTL DEF GatewaySpec

\* A call begun after the deletion of its key's owner is not served, whatever became of the key: it waits for
\* the owner's row or is over (gateway_token.go:264-276).
THEOREM GatewayDeletedOwnerUnserved == GatewaySpec => []DeletedOwnerUnserved
<1>1. GatewayInv => DeletedOwnerUnserved
  BY DEF GatewayInv, Turned, DeletedOwnerUnserved
<1> QED
  BY <1>1, GatewayInvariant, PTL

\* An open tool call, and an answer that completed, has sent every byte of the arguments that came
\* (responses_stream.go:93-252).
THEOREM GatewayArgumentsWhole == GatewaySpec => []ArgumentsWhole
<1>1. GatewayInv => ArgumentsWhole
  BY DEF GatewayInv, Whole, ArgumentsWhole
<1> QED
  BY <1>1, GatewayInvariant, PTL

\* What the cache holds: only the answer of a refresh that is still the newest replaces it.
LEMMA HeldGrows == ASSUME GatewayInv, GatewayNext PROVE catalog'.held >= catalog.held
<1>0. catalog \in CatalogType /\ catalog.held \in Nat /\ catalog.gen \in Nat /\ catalog.held <= catalog.gen
  BY DEF GatewayInv, GatewayTypeOK, Counted, CatalogType
<1>1. CASE catalog'.held = catalog.held
  BY <1>0, <1>1
<1>2. ASSUME UNCHANGED catalog PROVE catalog'.held = catalog.held
  BY <1>2
<1>3. CASE AsksForKey \/ ChangesKey \/ KeyExpires \/ OwnerSwitched \/ OwnerDeleted \/ CacheAges
  BY <1>0, <1>1, <1>3 DEF AsksForKey, ChangesKey, KeyExpires, OwnerSwitched, OwnerDeleted, CacheAges, CatalogType
<1>4. ASSUME NEW c \in Callers, ListModels(c) \/ GetModel(c) \/ DetailReturns(c) PROVE catalog'.held = catalog.held
  <2>1. CASE ListModels(c)
    BY <1>0, <2>1 DEF ListModels, CatalogType
  <2>2. CASE GetModel(c)
    BY <1>0, <2>2 DEF GetModel, CatalogType
  <2>3. CASE DetailReturns(c)
    BY <1>0, <2>3 DEF DetailReturns, CatalogType
  <2> QED
    BY <1>4, <2>1, <2>2, <2>3
<1>5. ASSUME NEW c \in Callers, CatalogReturns(c) PROVE catalog'.held >= catalog.held
  <2>1. \/ UNCHANGED catalog
        \/ \E answer \in SUBSET CatalogModels :
              /\ Newest(request[c].gen, catalog.gen)
              /\ catalog' = [catalog EXCEPT !.models = answer, !.held = request[c].gen, !.age = "fresh", !.off = @ \ answer]
    BY <1>5, Zenon DEF CatalogReturns
  <2>2. ASSUME NEW answer \in SUBSET CatalogModels, Newest(request[c].gen, catalog.gen),
               catalog' = [catalog EXCEPT !.models = answer, !.held = request[c].gen, !.age = "fresh", !.off = @ \ answer]
        PROVE  catalog'.held = catalog.gen
    <3>1. request[c].gen = catalog.gen
      BY <2>2 DEF Newest
    <3> QED
      BY <1>0, <2>2, <3>1 DEF CatalogType
  <2>3. catalog'.held = catalog.held \/ catalog'.held = catalog.gen
    BY <1>2, <2>1, <2>2, Zenon
  <2> QED
    BY <1>0, <2>3
<1>6. ASSUME NEW c \in Callers,
             \/ KeyRead(c) \/ Admitted(c) \/ DecodesChat(c) \/ DecodesResponses(c) \/ ReadsRouting(c) \/ AsksDetail(c)
             \/ SanitizesRaw(c) \/ Encodes(c) \/ Invokes(c) \/ ProjectsWhole(c) \/ RelaysChat(c)
             \/ AcceptsTool(c) \/ AcceptsText(c) \/ StreamFails(c) \/ Completes(c)
      PROVE  UNCHANGED catalog
  BY <1>6, Zenon DEF KeyRead, Admitted, DecodesChat, DecodesResponses, ReadsRouting, AsksDetail, Asks, SanitizesRaw, Encodes,
                     Invokes, ProjectsWhole, RelaysChat, AcceptsTool, AcceptsText, StreamFails, Completes
<1> QED
  BY <1>1, <1>2, <1>3, <1>4, <1>5, <1>6 DEF GatewayNext

\* No answer replaces that of a newer refresh, and a model taken out has no detail to serve, in whatever order
\* the calls' refreshes come back (whitelabel/service.go:303-391).
THEOREM GatewayCacheCoherent == GatewaySpec => CacheCoherent
<1>1. GatewayInv /\ GatewayInv' /\ [GatewayNext]_gatewayVars
      => [/\ catalog'.held >= catalog.held /\ catalog'.off \cap catalog'.detail = {}]_gatewayVars
  <2> SUFFICES ASSUME GatewayInv, GatewayInv', GatewayNext
               PROVE  catalog'.held >= catalog.held /\ catalog'.off \cap catalog'.detail = {}
    OBVIOUS
  <2>1. catalog'.held >= catalog.held
    BY HeldGrows
  <2> QED
    BY <2>1 DEF GatewayInv, Counted
<1> QED
  BY <1>1, GatewayInvariant, PTL DEF GatewaySpec, CacheCoherent

----------------------------------------------------------------------------
(* Streamed comparisons of the platform's chat *)


Word == {"nothing", "chunk", "done", "error"}

StreamType == [of : Chats \cup {NoChat}, broken : BOOLEAN, output : BOOLEAN, held : SUBSET ChatModels,
               told : [ChatModels -> Word], result : [ChatModels -> {"none", "reply", "error"}]]

\* What a model's end leaves to be told is held back, and only before the first frame.
HeldOrTold(s) ==
    /\ s.output => s.held = {}
    /\ \A m \in s.held : s.result[m] = "error"
    /\ ~s.broken => \A m \in ChatModels :
          /\ s.result[m] = "reply" => s.told[m] = "done"
          /\ s.result[m] = "error" => s.told[m] = "error" \/ m \in s.held

StreamInv == stream \in StreamType /\ HeldOrTold(stream)

\* A stream that starts has nothing to tell.
LEMMA QuietGood == ASSUME NEW c \in Chats \cup {NoChat}, NEW s, s = [Quiet EXCEPT !.of = c]
                   PROVE  s \in StreamType /\ HeldOrTold(s)
BY DEF Quiet, StreamType, HeldOrTold, Word

\* The first frame, with the failures held back before it, keeps what was told.
LEMMA FirstOutputGood ==
    ASSUME NEW s \in StreamType, HeldOrTold(s)
    PROVE  /\ FirstOutput(s) \in StreamType /\ HeldOrTold(FirstOutput(s))
           /\ FirstOutput(s).held = {} /\ FirstOutput(s).output
           /\ FirstOutput(s).result = s.result /\ FirstOutput(s).broken = s.broken
BY DEF FirstOutput, StreamType, HeldOrTold, Word

\* A frame of a model that has not ended, or its failure to be written, keeps it too.
LEMMA WritesGood ==
    ASSUME StreamInv, NEW m \in ChatModels, Unfinished(m),
           NEW word, NEW result, <<word, result>> \in {<<"chunk", "none">>, <<"done", "reply">>},
           Writes(m, word, result)
    PROVE  StreamInv'
<1> DEFINE s == FirstOutput(stream)
<1>1. s \in StreamType /\ HeldOrTold(s) /\ s.held = {} /\ s.result = stream.result
  BY FirstOutputGood DEF StreamInv
<1>2. word \in Word /\ result \in {"none", "reply"} /\ (result = "reply" => word = "done")
  BY DEF Word
<1>3. stream.result[m] = "none" /\ m \notin stream.held
  BY DEF Unfinished, StreamInv, HeldOrTold
<1>4. CASE stream' = [s EXCEPT !.told[m] = word, !.result[m] = result]
  BY <1>1, <1>2, <1>3, <1>4 DEF StreamInv, HeldOrTold, StreamType
<1>5. CASE stream' = [stream EXCEPT !.broken = TRUE, !.result[m] = result]
  BY <1>2, <1>3, <1>5 DEF StreamInv, HeldOrTold, StreamType
<1> QED
  BY <1>4, <1>5 DEF Writes

\* No stream runs at first.
LEMMA StreamInvInit == ChatInit => StreamInv
BY DEF ChatInit, StreamInv, Quiet, StreamType, HeldOrTold, Word

\* Every action of the stream keeps the invariant; every other leaves the stream alone.
LEMMA StreamInvNext == StreamInv /\ [ChatNext]_chatVars => StreamInv'
<1> SUFFICES ASSUME StreamInv, [ChatNext]_chatVars PROVE StreamInv'
  OBVIOUS
<1>1. CASE UNCHANGED stream
  BY <1>1 DEF StreamInv
<1>2. ASSUME NEW c \in Chats, StreamStarts(c) PROVE StreamInv'
  BY <1>2, QuietGood DEF StreamStarts, StreamInv
<1>3. CASE StreamEnds
  BY <1>3 DEF StreamEnds, StreamInv, Quiet, StreamType, HeldOrTold, Word
<1>4. ASSUME NEW m \in ChatModels, EmitsChunk(m) PROVE StreamInv'
  BY <1>4, WritesGood DEF EmitsChunk
<1>5. ASSUME NEW m \in ChatModels, ModelDone(m) PROVE StreamInv'
  <2>1. CASE stream.broken
    BY <1>5, <2>1 DEF ModelDone, Unfinished, StreamInv, StreamType, HeldOrTold
  <2>2. CASE ~stream.broken
    BY <1>5, <2>2, WritesGood DEF ModelDone
  <2> QED
    BY <2>1, <2>2
<1>6. ASSUME NEW m \in ChatModels, EmitsFailure(m) PROVE StreamInv'
  <2> DEFINE failed == [stream EXCEPT !.result[m] = "error"]
  <2>1. stream \in StreamType /\ HeldOrTold(stream) /\ stream.result[m] = "none"
    BY <1>6 DEF EmitsFailure, Unfinished, StreamInv
  <2>2. CASE stream.broken /\ stream' = failed
    BY <2>1, <2>2 DEF StreamInv, StreamType, HeldOrTold
  <2>3. CASE ~stream.output /\ stream' = [failed EXCEPT !.held = @ \cup {m}]
    BY <2>1, <2>3 DEF StreamInv, StreamType, HeldOrTold
  <2>4. CASE stream.output /\ stream' = [failed EXCEPT !.told[m] = "error"]
    BY <2>1, <2>4 DEF StreamInv, StreamType, HeldOrTold, Word
  <2>5. CASE stream.output /\ stream' = [failed EXCEPT !.broken = TRUE]
    BY <2>1, <2>5 DEF StreamInv, StreamType, HeldOrTold
  <2> QED
    BY <1>6, <2>2, <2>3, <2>4, <2>5 DEF EmitsFailure
<1>7. CASE UNCHANGED chatVars
  BY <1>1, <1>7 DEF chatVars
<1>8. CASE ChatNext
  BY <1>1, <1>2, <1>3, <1>4, <1>5, <1>6, <1>8
     DEF ChatNext, Authenticates, Consumes, ChatFails, Opens, Notes, Asked, SavesUser, DeletesTalk,
         CreatesOrder, PaysOrder, RequestsInvoice, ChargesGeneration, Administers, DayPasses
<1> QED
  BY <1>7, <1>8

\* The strengthened invariant of the streamed comparison.
THEOREM StreamInvariant == ChatSpec => []StreamInv
<1> QED
  BY StreamInvInit, StreamInvNext, PTL DEF ChatSpec

\* For any number of models, what is stored of a streamed comparison is what its client was told.
THEOREM ChatToldAsStored == ChatSpec => []ToldAsStored
<1>1. StreamInv => ToldAsStored
  BY DEF StreamInv, ToldAsStored, Stored, Ended, Unfinished, StreamType, HeldOrTold
<1> QED
  BY <1>1, StreamInvariant, PTL
=============================================================================
