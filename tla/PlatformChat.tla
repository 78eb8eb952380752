---------------------------- MODULE PlatformChat ----------------------------
(***************************************************************************)
(* Chat without a generation record (service/platform_chat.go), billing    *)
(* (billing.go) and conversations (conversation.go) of one user.  The row  *)
(* of the user is read when a request is authenticated and saved whole,    *)
(* with every column, when it is charged and again when it was answered;   *)
(* an order's and a conversation's row are saved whole as well.  Only      *)
(* payments, administrators and generations lock the user's row.           *)
(* Tokens are counted like calls and left out.                             *)
(***************************************************************************)
EXTENDS Naturals, FiniteSets

CONSTANTS Chats,            \* requests under way
          Orders, ChatModels,
          NoChat,
          DailyLimit,       \* calls a day of the free plan
          MaxDay, MaxUsed, MaxAuth  \* bounds: days, calls counted, changes by administrators

ASSUME ChatAssumption ==
    /\ {DailyLimit, MaxDay, MaxUsed, MaxAuth} \subseteq Nat
    /\ NoChat \notin Chats /\ IsFiniteSet(ChatModels) /\ ChatModels # {}

VARIABLES day,
          account,  \* the user's row
          talk,     \* the row of one conversation: "none", "live", "deleted"
          order,
          chat,     \* requests, each with the row it was authenticated with
          stream    \* the comparison that streams

chatVars == <<day, account, talk, order, chat, stream>>

NewAccount == [standing |-> "active", auth |-> 1, plan |-> "free", used |-> 0, resetOn |-> 0]
NoRequest == [pc |-> "idle", kind |-> "none", named |-> FALSE, row |-> NewAccount]
Quiet == [of |-> NoChat, broken |-> FALSE, output |-> FALSE, held |-> {},
          told |-> [m \in ChatModels |-> "nothing"], result |-> [m \in ChatModels |-> "none"]]

ChatInit ==
    /\ day = 0 /\ talk = "none" /\ account = NewAccount /\ stream = Quiet
    /\ order = [o \in Orders |-> "none"] /\ chat = [c \in Chats |-> NoRequest]

----------------------------------------------------------------------------
(* Quota *)

\* The counters start again on a new day (UTC).
ResetDaily(row) == IF row.resetOn = day THEN row ELSE [row EXCEPT !.used = 0, !.resetOn = day]

Within(row, n) == row.plan # "free" \/ row.used + n <= DailyLimit

Count(kind) == IF kind = "compare" THEN Cardinality(ChatModels) ELSE 1

Steps(c, pc) == chat' = [chat EXCEPT ![c].pc = pc]
Stops(c) == chat' = [chat EXCEPT ![c] = NoRequest]

\* The session middleware reads the row; a new title ("rename") costs no call.
Authenticates(c, kind) ==
    /\ chat[c].pc = "idle" /\ account.standing = "active"
    /\ chat' = [chat EXCEPT ![c] = [pc |-> IF kind = "rename" THEN "opens" ELSE "in",
                                    kind |-> kind, named |-> FALSE, row |-> account]]
    /\ UNCHANGED <<day, account, talk, order, stream>>

\* CheckAndConsumeCall decides on that row and saves all of it.
Consumes(c) ==
    LET row == ResetDaily(chat[c].row)
        n == Count(chat[c].kind)
        charged == [row EXCEPT !.used = @ + n] IN
    /\ chat[c].pc = "in"
    /\ \/ /\ Within(row, n) /\ charged.used <= MaxUsed
          /\ account' = charged
          /\ chat' = [chat EXCEPT ![c].row = charged, ![c].pc = IF chat[c].kind = "chat" THEN "opens" ELSE "asks"]
       \/ ~Within(row, n) /\ Stops(c) /\ UNCHANGED account
    /\ UNCHANGED <<day, talk, order, stream>>

\* A model the user may not use, a write or the upstream that fails: the charge stays.
ChatFails(c) ==
    /\ chat[c].pc # "idle" /\ stream.of # c /\ Stops(c)
    /\ UNCHANGED <<day, account, talk, order, stream>>

\* The conversation is read or created; the model follows one, the others are of no account.
Opens(c) ==
    /\ chat[c].pc = "opens"
    /\ \E named \in BOOLEAN :
          /\ named => talk \in (IF chat[c].kind = "rename" THEN {"live"} ELSE {"none", "live"})
          /\ chat[c].kind = "rename" => named
          /\ talk' = IF named THEN "live" ELSE talk
          /\ chat' = [chat EXCEPT ![c].named = named, ![c].pc = "notes"]
    /\ UNCHANGED <<day, account, order, stream>>

\* AddMessage and a new title save the conversation as it was read, with every column.
Notes(c) ==
    /\ chat[c].pc \in {"notes", "answered"}
    /\ talk' = IF chat[c].named THEN "live" ELSE talk
    /\ CASE chat[c].kind = "rename" -> Stops(c)
         [] chat[c].pc = "notes" /\ chat[c].kind = "chat" -> Steps(c, "asks")
         [] OTHER -> Steps(c, "saves")
    /\ UNCHANGED <<day, account, order, stream>>

\* The upstream answers, in one piece or streamed; a comparison that does not stream asks in turn.
Asked(c) ==
    /\ chat[c].pc = "asks" /\ stream.of # c
    /\ Steps(c, IF chat[c].kind = "chat" THEN "answered" ELSE "opens")
    /\ UNCHANGED <<day, account, talk, order, stream>>

\* The tokens are added to the row read at the beginning, and all of it is saved again.
SavesUser(c) ==
    /\ chat[c].pc = "saves"
    /\ account' = chat[c].row /\ Stops(c)
    /\ UNCHANGED <<day, talk, order, stream>>

DeletesTalk ==
    /\ talk = "live" /\ talk' = "deleted"
    /\ UNCHANGED <<day, account, order, chat, stream>>

----------------------------------------------------------------------------
(* A comparison that streams: a goroutine per model, one mutex for the writer *)

StreamStarts(c) ==
    /\ chat[c].pc = "asks" /\ chat[c].kind = "compare" /\ stream.of = NoChat
    /\ stream' = [Quiet EXCEPT !.of = c]
    /\ UNCHANGED <<day, account, talk, order, chat>>

Unfinished(m) == stream.of # NoChat /\ stream.result[m] = "none"

\* Mutant: the failures that were held back are dropped.
FirstOutput_Forgetful(s) == [s EXCEPT !.output = TRUE, !.held = {}]

\* The output with its first frame: failures that were held back come first.
FirstOutput(s) == [s EXCEPT !.output = TRUE, !.held = {},
                            !.told = [m \in ChatModels |-> IF m \in s.held THEN "error" ELSE s.told[m]]]

\* A frame is written, or the write fails and cancels every model of the stream.
Writes(m, word, result) ==
    stream' \in {[FirstOutput(stream) EXCEPT !.told[m] = word, !.result[m] = result],
                 [stream EXCEPT !.broken = TRUE, !.result[m] = result]}

EmitsChunk(m) ==
    /\ Unfinished(m) /\ ~stream.broken /\ stream.told[m] = "nothing" /\ Writes(m, "chunk", "none")
    /\ UNCHANGED <<day, account, talk, order, chat>>

ModelDone(m) ==
    /\ Unfinished(m)
    /\ IF stream.broken THEN stream' = [stream EXCEPT !.result[m] = "reply"] ELSE Writes(m, "done", "reply")
    /\ UNCHANGED <<day, account, talk, order, chat>>

\* emitFailure: a failure waits for the first frame of another model.
EmitsFailure(m) ==
    LET failed == [stream EXCEPT !.result[m] = "error"] IN
    /\ Unfinished(m)
    /\ stream' \in IF stream.broken THEN {failed}
                   ELSE IF ~stream.output THEN {[failed EXCEPT !.held = @ \cup {m}]}
                   ELSE {[failed EXCEPT !.told[m] = "error"], [failed EXCEPT !.broken = TRUE]}
    /\ UNCHANGED <<day, account, talk, order, chat>>

\* workers.Wait returned: a broken or a silent stream is an error, the results of any other are stored.
Ended == stream.of # NoChat /\ \A m \in ChatModels : ~Unfinished(m)
Stored == Ended /\ ~stream.broken /\ stream.output

StreamEnds ==
    /\ Ended
    /\ IF Stored THEN Steps(stream.of, "opens") ELSE Stops(stream.of)
    /\ stream' = Quiet
    /\ UNCHANGED <<day, account, talk, order>>

----------------------------------------------------------------------------
(* Orders *)

CreatesOrder(o) ==
    /\ account.standing = "active" /\ order[o] = "none"
    /\ order' = [order EXCEPT ![o] = "pending"]
    /\ UNCHANGED <<day, account, talk, chat, stream>>

\* Both rows are locked and read again.
PaysOrder(o) ==
    /\ order[o] = "pending" /\ account.standing # "deleted"
    /\ order' = [order EXCEPT ![o] = "paid"] /\ account' = [account EXCEPT !.plan = "paid"]
    /\ UNCHANGED <<day, talk, chat, stream>>

\* Read and saved without a lock; nothing else changes an order that is paid.
RequestsInvoice(o) ==
    /\ order[o] = "paid" /\ order' = [order EXCEPT ![o] = "invoiced"]
    /\ UNCHANGED <<day, account, talk, chat, stream>>

----------------------------------------------------------------------------
(* Who else writes the row: a generation's charge, administrators *)

\* persistPlatformGeneration counts under the row's lock, and writes its own columns.
ChargesGeneration(n) ==
    LET row == ResetDaily(account) IN
    /\ account.standing = "active" /\ Within(row, n) /\ row.used + n <= MaxUsed
    /\ account' = [row EXCEPT !.used = @ + n]
    /\ UNCHANGED <<day, talk, order, chat, stream>>

\* A status, a password or a deletion; each raises auth_version under the row's lock.
Administers(standing) ==
    /\ account.standing # "deleted" /\ account.auth < MaxAuth
    /\ account' = [account EXCEPT !.standing = standing, !.auth = @ + 1]
    /\ UNCHANGED <<day, talk, order, chat, stream>>

DayPasses ==
    /\ day < MaxDay /\ day' = day + 1
    /\ UNCHANGED <<account, talk, order, chat, stream>>

ChatNext ==
    \/ \E c \in Chats : \/ \E kind \in {"chat", "compare", "rename"} : Authenticates(c, kind)
                        \/ Consumes(c) \/ ChatFails(c) \/ Opens(c) \/ Notes(c) \/ Asked(c) \/ SavesUser(c)
                        \/ StreamStarts(c)
    \/ \E m \in ChatModels : EmitsChunk(m) \/ ModelDone(m) \/ EmitsFailure(m)
    \/ \E o \in Orders : CreatesOrder(o) \/ PaysOrder(o) \/ RequestsInvoice(o)
    \/ StreamEnds \/ DeletesTalk \/ DayPasses
    \/ \E standing \in {"active", "disabled", "deleted"} : Administers(standing)
    \/ \E n \in 1..Cardinality(ChatModels) : ChargesGeneration(n)

ChatSpec == ChatInit /\ [][ChatNext]_chatVars

----------------------------------------------------------------------------
(* Properties *)

\* Type correctness.
ChatTypeOK ==
    /\ day \in 0..MaxDay /\ talk \in {"none", "live", "deleted"}
    /\ account \in [standing : {"active", "disabled", "deleted"}, auth : 1..MaxAuth, plan : {"free", "paid"},
                     used : 0..MaxUsed, resetOn : 0..MaxDay]
    /\ stream.held \subseteq ChatModels /\ \A c \in Chats : chat[c].row.used \in 0..MaxUsed

\* What is stored of a streamed comparison is what its client was told of each model, though a
\* failure before the first frame waits for another model's (platform_chat.go:462-574).
ToldAsStored ==
    Stored => \A m \in ChatModels : stream.told[m] = IF stream.result[m] = "reply" THEN "done" ELSE "error"

\* Documented: a deletion cannot be undone.
DeletionIsFinal == [][account.standing = "deleted" => account'.standing = "deleted"]_chatVars
=============================================================================
