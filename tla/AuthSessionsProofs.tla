------------------------- MODULE AuthSessionsProofs -------------------------
(* A session that was denied stays denied, a token that was given out is    *)
(* committed, and a race of refreshes can be recovered, for any number of   *)
(* sessions and requests, any lives and windows.                            *)
EXTENDS AuthSessions, FiniteSetTheorems, WellFoundedInduction, TLAPS

\* The calls that hold the user row, those that hold the row of their session, those that name one.
HoldsUser == {"creating", "revoking_all", "changing"}
HoldsRow == {"rotating", "replaying"}
NamesRow == HoldsRow \cup {"refresh", "publishing", "revoke"}

RowType == [state : {"none", "live", "revoked"}, birth : Nat, born : Nat, expires : Nat, drawn : Nat,
            current : Nat, previous : Nat, prevUntil : Nat, past : SUBSET Nat]

ResultType == [target : Nat, until : Nat]

CallType == [op : {"idle", "create"} \cup HoldsUser \cup NamesRow, sid : Sessions \cup {None}, secret : Nat,
             at : Nat, auth : Nat, rows : SUBSET Sessions]

SessionTypeOK ==
    /\ clock \in Nat /\ account \in [active : BOOLEAN, auth : Nat]
    /\ row \in [Sessions -> RowType]
    /\ barrier \in [Sessions -> Nat]
    /\ pending \in [Sessions -> ResultType] /\ public \in [Sessions -> ResultType]
    /\ handed \subseteq [sid : Sessions, secret : Nat]
    /\ call \in [Requests -> CallType]

\* One call holds the user row, one call each row; what is locked is live, what was never used is blank.
Locks ==
    /\ \A q, r \in Requests : call[q].op \in HoldsUser /\ call[r].op \in HoldsUser => q = r
    /\ \A q, r \in Requests : q # r => call[q].rows \cap call[r].rows = {}
    /\ \A r \in Requests : \A s \in call[r].rows : row[s].state = "live"
    /\ \A r \in Requests : /\ call[r].op \notin HoldsUser \cup HoldsRow => call[r].rows = {}
                           /\ call[r].op \in HoldsRow => call[r].rows = {call[r].sid}
                           /\ call[r].op \in NamesRow => call[r].sid \in Sessions /\ row[call[r].sid].state # "none"

Blank ==
    \A s \in Sessions : row[s].state = "none" =>
        row[s] = NoRow /\ barrier[s] = 0 /\ pending[s] = NoResult /\ public[s] = NoResult

\* Nothing live is left out by the change of version that is under way.
Swept == \A r \in Requests : call[r].op = "changing" => Unrevoked \subseteq call[r].rows

\* A call's clock is never ahead, and a barrier outlives the session it denies.
Timely ==
    /\ \A r \in Requests : call[r].at <= clock
    /\ \A s \in Sessions : Barred(s) /\ row[s].state = "live" => row[s].expires <= barrier[s]

\* What a request shows, or is about to hand out, was given out or committed before.
Shown ==
    \A r \in Requests :
        /\ call[r].op = "refresh" => [sid |-> call[r].sid, secret |-> call[r].secret] \in handed
        /\ call[r].op = "publishing" => call[r].secret \in row[call[r].sid].past

\* The newest secret drawn is committed only as the current one; Redis holds nothing else.
Drawn ==
    \A s \in Sessions : row[s].state = "live" =>
        /\ \A x \in row[s].past : x >= 1 /\ x <= row[s].drawn
        /\ row[s].current \in row[s].past
        /\ row[s].drawn \in row[s].past => row[s].current = row[s].drawn
        /\ pending[s].target \in {0, row[s].drawn}
        /\ public[s].target \in row[s].past \cup {0}
        /\ row[s].prevUntil <= clock + Window

\* The slot has the row's current secret, for as long as the previous cookie is honoured.
Keeps(slot, s) == slot[s].target = row[s].current /\ slot[s].until >= row[s].prevUntil

Open(s) == row[s].state = "live" /\ row[s].prevUntil > clock

\* Within the window the current secret is in Redis; once given out, in public, where it stays.
Windows ==
    \A s \in Sessions : Open(s) =>
        /\ Keeps(public, s) \/ Keeps(pending, s)
        /\ public[s].target = row[s].current => Keeps(public, s)
        /\ [sid |-> s, secret |-> row[s].current] \in handed => Keeps(public, s)

\* A rotation that may still commit has its result in Redis until its window ends.
Rotating ==
    \A r \in Requests : call[r].op = "rotating" =>
        LET s == call[r].sid IN
        /\ row[s].drawn \notin row[s].past
        /\ call[r].at + Window > clock =>
              pending[s].target = row[s].drawn /\ pending[s].until >= call[r].at + Window

SessionInv ==
    /\ SessionTypeOK /\ Locks /\ Blank /\ Swept /\ Timely /\ BornUnderVersion
    /\ HandedAreCommitted /\ Shown /\ Drawn /\ Windows /\ Rotating

----------------------------------------------------------------------------
(* Initially *)

LEMMA SessionInvInit == SessionInit => SessionInv
BY SessionAssumption
   DEF SessionInit, SessionInv, SessionTypeOK, Locks, Blank, Swept, Timely, BornUnderVersion, HandedAreCommitted, Shown,
       Drawn, Windows, Rotating, RowType, ResultType, CallType, HoldsUser, HoldsRow, NamesRow, NoRow, NoResult, NoCall,
       Unrevoked, Barred, Open

----------------------------------------------------------------------------
(* What several actions share *)

LEMMA Periods == /\ Window \in Nat /\ Window > 0 /\ Day \in Nat /\ Day > 0
                 /\ \A life \in Lives : life \in Nat /\ life > 0
BY SessionAssumption

\* What a call may become while the rows stay as they are.
Sound(r, c) ==
    /\ c \in CallType /\ c.at <= clock /\ c.op # "rotating"
    /\ c.op \in HoldsUser => \A q \in Requests : q # r => call[q].op \notin HoldsUser
    /\ \A s \in c.rows : row[s].state = "live" /\ \A q \in Requests : q # r => s \notin call[q].rows
    /\ c.op \notin HoldsUser \cup HoldsRow => c.rows = {}
    /\ c.op \in HoldsRow => c.rows = {c.sid}
    /\ c.op \in NamesRow => c.sid \in Sessions /\ row[c.sid].state # "none"
    /\ c.op = "changing" => Unrevoked \subseteq c.rows
    /\ c.op = "refresh" => [sid |-> c.sid, secret |-> c.secret] \in handed
    /\ c.op = "publishing" => c.secret \in row[c.sid].past

\* A call ends at any time.
LEMMA NoCallTyped == NoCall \in CallType /\ NoCall.rows = {} /\ NoCall.op = "idle" /\ NoCall.at = 0
BY DEF NoCall, CallType

LEMMA NoCallSound == ASSUME SessionTypeOK, NEW r \in Requests PROVE Sound(r, NoCall)
BY DEF SessionTypeOK, Sound, NoCall, CallType, HoldsUser, HoldsRow, NamesRow

\* Entering a call touches no other.
LEMMA EnterFields ==
    ASSUME SessionTypeOK, NEW r \in Requests, NEW c \in CallType, Enter(r, c)
    PROVE  /\ call' \in [Requests -> CallType] /\ call'[r] = c
           /\ \A q \in Requests : q # r => call'[q] = call[q]
BY DEF SessionTypeOK, Enter

\* The barriers a call writes.
BarsGrow == /\ barrier' \in [Sessions -> Nat]
            /\ \A s \in Sessions : barrier'[s] = barrier[s]
                  \/ /\ row[s].state # "none" /\ barrier'[s] > 0
                     /\ row[s].state = "live" => row[s].expires <= barrier'[s]

LEMMA BarFields ==
    ASSUME SessionTypeOK, NEW S \in SUBSET Sessions, NEW at \in Nat, at <= clock, Bar(S, at),
           \A s \in S : row[s].state # "none"
    PROVE  BarsGrow
<1>1. ASSUME NEW s \in S
      PROVE  BarrierEnd(s, at) \in Nat /\ BarrierEnd(s, at) > 0 /\ row[s].expires <= BarrierEnd(s, at)
  <2>1. row[s] \in RowType /\ row[s].expires \in Nat /\ clock \in Nat /\ Day \in Nat /\ Day > 0
    BY <1>1, Periods DEF SessionTypeOK, RowType
  <2> QED
    BY <2>1 DEF BarrierEnd
<1> QED
  BY <1>1 DEF Bar, BarsGrow, SessionTypeOK

\* A step that changes one call, soundly, and writes barriers.
LEMMA CallKeeps ==
    ASSUME SessionInv, NEW r \in Requests, NEW c, Sound(r, c), Enter(r, c), BarsGrow,
           UNCHANGED <<clock, account, row, pending, public, handed>>
    PROVE  SessionInv'
<1>0. /\ call' \in [Requests -> CallType] /\ call'[r] = c
      /\ \A q \in Requests : q # r => call'[q] = call[q]
  BY EnterFields DEF Sound, SessionInv
<1>1. SessionTypeOK'
  BY <1>0 DEF SessionInv, SessionTypeOK, BarsGrow
<1>2. Locks'
  BY <1>0 DEF SessionInv, SessionTypeOK, Locks, Sound
<1>3. Blank'
  BY DEF SessionInv, Blank, BarsGrow
<1>4. Swept'
  BY <1>0 DEF SessionInv, Swept, Sound, Unrevoked
<1>5. Timely'
  BY <1>0 DEF SessionInv, Timely, Sound, BarsGrow, Barred
<1>6. BornUnderVersion' /\ HandedAreCommitted'
  BY DEF SessionInv, BornUnderVersion, HandedAreCommitted
<1>7. Shown'
  BY <1>0 DEF SessionInv, Shown, Sound
<1>8. Drawn'
  BY DEF SessionInv, Drawn
<1>9. Windows'
  BY DEF SessionInv, Windows, Open, Keeps
<1>10. Rotating'
  BY <1>0 DEF SessionInv, Rotating, Sound
<1> QED
  BY <1>1, <1>2, <1>3, <1>4, <1>5, <1>6, <1>7, <1>8, <1>9, <1>10 DEF SessionInv

\* A step that ends one call and revokes rows nobody else holds.
LEMMA RevokeKeeps ==
    ASSUME SessionInv, NEW r \in Requests, NEW S \in SUBSET Sessions, RevokeLocked(S), Leave(r),
           \A s \in S : row[s].state # "none" /\ \A q \in Requests : q # r => s \notin call[q].rows,
           UNCHANGED <<clock, barrier, pending, public, handed>>,
           account' \in [active : BOOLEAN, auth : Nat],
           account' = account \/ Unrevoked \subseteq S
    PROVE  SessionInv'
<1>0. /\ call' \in [Requests -> CallType] /\ call'[r] = NoCall
      /\ \A q \in Requests : q # r => call'[q] = call[q]
  BY EnterFields, NoCallSound DEF SessionInv, Leave, Sound
<1>1. ASSUME NEW s \in S
      PROVE  Revoked(s) \in RowType /\ Revoked(s).state = "revoked" /\ Revoked(s).past = row[s].past
  <2>1. row[s] \in RowType
    BY <1>1 DEF SessionInv, SessionTypeOK
  <2> QED
    BY <2>1 DEF RowType, Revoked, NoRow
<1>2. /\ row' \in [Sessions -> RowType]
      /\ \A s \in Sessions : IF s \in S THEN row'[s].state = "revoked" /\ row'[s].past = row[s].past ELSE row'[s] = row[s]
  BY <1>1 DEF SessionInv, SessionTypeOK, RevokeLocked
<1>3. SessionTypeOK'
  BY <1>0, <1>2 DEF SessionInv, SessionTypeOK
<1>4. Locks'
  <2>1. NoCall.rows = {} /\ NoCall.op \notin HoldsUser \cup HoldsRow \cup NamesRow
    BY DEF NoCall, HoldsUser, HoldsRow, NamesRow
  <2>2. ASSUME NEW q \in Requests, NEW s \in call'[q].rows PROVE row'[s].state = "live"
    BY <1>0, <1>2, <2>1, <2>2 DEF SessionInv, SessionTypeOK, Locks, CallType
  <2>3. ASSUME NEW q \in Requests, call'[q].op \in NamesRow
        PROVE  call'[q].sid \in Sessions /\ row'[call'[q].sid].state # "none"
    BY <1>0, <1>2, <2>1, <2>3 DEF SessionInv, Locks
  <2>4. ASSUME NEW q \in Requests
        PROVE  /\ call'[q].op \notin HoldsUser \cup HoldsRow => call'[q].rows = {}
               /\ call'[q].op \in HoldsRow => call'[q].rows = {call'[q].sid}
    BY <1>0, <2>1, <2>4 DEF SessionInv, Locks
  <2>5. ASSUME NEW q \in Requests, NEW p \in Requests
        PROVE  /\ call'[q].op \in HoldsUser /\ call'[p].op \in HoldsUser => q = p
               /\ q # p => call'[q].rows \cap call'[p].rows = {}
    BY <1>0, <2>1, <2>5 DEF SessionInv, Locks
  <2> QED
    BY <2>2, <2>3, <2>4, <2>5 DEF Locks
<1>5. Blank'
  BY <1>2 DEF SessionInv, Blank
<1>6. Swept'
  BY <1>0, <1>2 DEF SessionInv, Swept, NoCall, Unrevoked
<1>7. Timely'
  BY <1>0, <1>2 DEF SessionInv, SessionTypeOK, Timely, Barred, NoCall
<1>8. BornUnderVersion'
  BY <1>2 DEF SessionInv, BornUnderVersion, Unrevoked
<1>9. HandedAreCommitted' /\ Shown'
  BY <1>0, <1>2 DEF SessionInv, SessionTypeOK, HandedAreCommitted, Shown, NoCall, Locks, NamesRow
<1>10. Drawn'
  BY <1>2 DEF SessionInv, Drawn
<1>11. Windows'
  BY <1>2 DEF SessionInv, Windows, Open, Keeps
<1>12. Rotating'
  <2>1. \A q \in Requests : call'[q].op = "rotating" =>
           q # r /\ call[q].op = "rotating" /\ call'[q] = call[q] /\ row'[call[q].sid] = row[call[q].sid]
    BY <1>0, <1>2 DEF SessionInv, Locks, NoCall, HoldsRow, NamesRow
  <2> QED
    BY <2>1 DEF SessionInv, Rotating
<1> QED
  BY <1>3, <1>4, <1>5, <1>6, <1>7, <1>8, <1>9, <1>10, <1>11, <1>12 DEF SessionInv

----------------------------------------------------------------------------
(* The steps that change a call only, and those that revoke *)

LEMMA UnlockedRows ==
    ASSUME SessionInv, NEW s, ~Locked(s) PROVE \A q \in Requests : s \notin call[q].rows
BY DEF Locked

LEMMA UnlockedUser ==
    ASSUME ~UserLocked PROVE \A q \in Requests : call[q].op \notin HoldsUser
BY DEF UserLocked, HoldsUser

LEMMA NoBarGrows == ASSUME SessionInv, UNCHANGED barrier PROVE BarsGrow
BY DEF SessionInv, SessionTypeOK, BarsGrow

\* At the cap there is an oldest session, whatever the choice made of it.
LEMMA OldestIsIn ==
    ASSUME SessionInv, NEW S \in SUBSET Sessions, IsFiniteSet(S), Overfull(S)
    PROVE  Oldest(S) \in S
<1>1. S # {}
  BY SessionAssumption, FS_EmptySet DEF Overfull
<1>2. \E s \in S : \A u \in S : row[s].birth <= row[u].birth
  <2> DEFINE T == {row[s].birth : s \in S}
  <2>1. \A s \in S : row[s].birth \in Nat
    BY DEF SessionInv, SessionTypeOK, RowType
  <2>2. T \subseteq Nat /\ T # {}
    BY <1>1, <2>1
  <2>3. PICK m \in T : \A n \in T : <<n, m>> \notin OpToRel(<, Nat)
    BY <2>2, NatLessThanWellFounded, WFMin, Zenon
  <2>4. \A n \in T : ~(n < m)
    BY <2>2, <2>3, Zenon DEF OpToRel
  <2> QED
    BY <2>1, <2>4
<1> QED
  BY <1>1, <1>2 DEF Oldest

LEMMA LoginKeeps == ASSUME SessionInv, NEW r \in Requests, LoginVerifies(r) PROVE SessionInv'
<1> DEFINE c == [NoCall EXCEPT !.op = "create", !.at = clock, !.auth = account.auth]
<1>1. Sound(r, c)
  <2>1. clock \in Nat /\ account.auth \in Nat
    BY DEF SessionInv, SessionTypeOK
  <2>2. c \in CallType /\ c.op = "create" /\ c.at = clock /\ c.rows = {}
    BY <2>1, NoCallTyped DEF CallType
  <2> HIDE DEF c
  <2> QED
    BY <2>1, <2>2 DEF Sound, HoldsUser, HoldsRow, NamesRow
<1>2. Enter(r, c) /\ BarsGrow /\ UNCHANGED <<clock, account, row, pending, public, handed>>
  BY NoBarGrows DEF LoginVerifies
<1> HIDE DEF c
<1> QED
  BY <1>1, <1>2, CallKeeps

LEMMA CreateLocksKeeps == ASSUME SessionInv, NEW r \in Requests, CreateLocks(r) PROVE SessionInv'
<1> DEFINE active == {s \in Unrevoked : Live(s, call[r].at)}
           victims == IF Overfull(active) THEN {Oldest(active)} ELSE {}
           c == [call[r] EXCEPT !.op = "creating", !.rows = victims]
<1>1. call[r] \in CallType /\ call[r].at \in Nat /\ call[r].at <= clock
  BY DEF SessionInv, SessionTypeOK, Timely, CallType
<1>2. victims \subseteq active
  <2>1. IsFiniteSet(active)
    BY SessionAssumption, FS_Subset DEF Unrevoked
  <2>2. CASE Overfull(active)
    <3>1. Oldest(active) \in active
      BY <2>1, <2>2, OldestIsIn DEF Unrevoked
    <3> QED
      BY <3>1
  <2>3. CASE ~Overfull(active)
    BY <2>3
  <2> QED
    BY <2>2, <2>3
<1>3. c \in CallType /\ c.op = "creating" /\ c.rows = victims /\ c.at = call[r].at
  <2>1. victims \in SUBSET Sessions
    BY <1>2 DEF Unrevoked
  <2> HIDE DEF victims
  <2> QED
    BY <1>1, <2>1 DEF CallType, HoldsUser
<1>4. /\ ~UserLocked /\ (\A s \in active : ~Locked(s)) /\ Bar(victims, call[r].at)
      /\ Enter(r, c) /\ UNCHANGED <<clock, account, row, pending, public, handed>>
  BY DEF CreateLocks
<1>5. \A s \in victims : s \in Sessions /\ row[s].state = "live" /\ ~Locked(s)
  BY <1>2, <1>4 DEF Unrevoked
<1> HIDE DEF victims, active, c
<1>6. BarsGrow
  BY <1>1, <1>4, <1>5, BarFields DEF SessionInv
<1>7. Sound(r, c)
  BY <1>1, <1>3, <1>4, <1>5, UnlockedRows, UnlockedUser DEF Sound, HoldsUser, HoldsRow, NamesRow
<1> QED
  BY <1>4, <1>6, <1>7, CallKeeps

LEMMA RefreshStartsKeeps ==
    ASSUME SessionInv, NEW r \in Requests, NEW token \in handed, RefreshStarts(r, token) PROVE SessionInv'
<1> DEFINE c == [NoCall EXCEPT !.op = "refresh", !.sid = token.sid, !.secret = token.secret, !.at = clock]
<1>1. /\ token.sid \in Sessions /\ token.secret \in Nat /\ clock \in Nat
      /\ token = [sid |-> token.sid, secret |-> token.secret]
  BY DEF SessionInv, SessionTypeOK
<1>2. /\ c \in CallType /\ c.op = "refresh" /\ c.at = clock /\ c.rows = {}
      /\ c.sid = token.sid /\ c.secret = token.secret
  BY <1>1, NoCallTyped DEF CallType, NamesRow
<1>3. row[token.sid].state # "none"
  BY <1>1 DEF SessionInv, HandedAreCommitted, Blank, NoRow
<1>4. Enter(r, c) /\ UNCHANGED <<clock, account, row, barrier, pending, public, handed>>
  BY DEF RefreshStarts
<1> HIDE DEF c
<1>5. Sound(r, c)
  BY <1>1, <1>2, <1>3 DEF Sound, HoldsUser, HoldsRow, NamesRow
<1> QED
  BY <1>4, <1>5, NoBarGrows, CallKeeps

\* A refusal and a death leave the rows, and what Redis was told, as they are.
LEMMA LeaveKeeps ==
    ASSUME SessionInv, NEW r \in Requests, RefreshRefused(r) \/ Dies(r) PROVE SessionInv'
<1>1. Enter(r, NoCall) /\ UNCHANGED <<clock, account, row, barrier, pending, public, handed>>
  BY DEF RefreshRefused, Dies, Leave
<1> QED
  BY <1>1, NoCallSound, NoBarGrows, CallKeeps DEF SessionInv

LEMMA ReplayKeeps == ASSUME SessionInv, NEW r \in Requests, ReplayStarts(r) PROVE SessionInv'
<1> DEFINE s == call[r].sid
           c == [call[r] EXCEPT !.op = "replaying", !.rows = {s}]
<1>1. /\ call[r] \in CallType /\ call[r].at \in Nat /\ call[r].at <= clock /\ call[r].op = "refresh"
      /\ s \in Sessions
  BY DEF SessionInv, SessionTypeOK, Timely, CallType, ReplayStarts, Refreshing, Locks, NamesRow
<1>2. row[s].state = "live" /\ ~Locked(s)
  BY DEF ReplayStarts, Refreshing, Live
<1>3. /\ Bar({s}, call[r].at) /\ Enter(r, c)
      /\ UNCHANGED <<clock, account, row, pending, public, handed>>
  BY DEF ReplayStarts
<1>4. c \in CallType /\ c.op = "replaying" /\ c.rows = {s} /\ c.at = call[r].at /\ c.sid = s
  BY <1>1 DEF CallType, NamesRow, HoldsRow
<1> HIDE DEF s, c
<1>5. BarsGrow
  BY <1>1, <1>2, <1>3, BarFields DEF SessionInv
<1>6. Sound(r, c)
  BY <1>1, <1>2, <1>4, UnlockedRows DEF Sound, HoldsUser, HoldsRow, NamesRow
<1> QED
  BY <1>3, <1>5, <1>6, CallKeeps

LEMMA RevokeBarsKeeps ==
    ASSUME SessionInv, NEW r \in Requests, NEW s \in Sessions, RevokeBars(r, s) PROVE SessionInv'
<1> DEFINE c == [NoCall EXCEPT !.op = "revoke", !.sid = s]
<1>1. c \in CallType /\ c.op = "revoke" /\ c.rows = {} /\ c.at = 0 /\ c.sid = s
  BY NoCallTyped DEF CallType, NamesRow
<1>2. clock \in Nat /\ row[s].state # "none"
  BY DEF SessionInv, SessionTypeOK, RevokeBars
<1>3. Bar({s}, clock) /\ Enter(r, c) /\ UNCHANGED <<clock, account, row, pending, public, handed>>
  BY DEF RevokeBars
<1> HIDE DEF c
<1>4. BarsGrow
  BY <1>2, <1>3, BarFields DEF SessionInv
<1>5. Sound(r, c)
  BY <1>1, <1>2 DEF Sound, HoldsUser, HoldsRow, NamesRow
<1> QED
  BY <1>3, <1>4, <1>5, CallKeeps

LEMMA RevokeAllLocksKeeps ==
    ASSUME SessionInv, NEW r \in Requests, NEW op \in {"revoking_all", "changing"}, NEW keep \in Sessions \cup {None},
           NEW marked \in SUBSET Sessions, RevokeAllLocks(r, op, keep, marked)
    PROVE  SessionInv'
<1> DEFINE sessions == Unrevoked \ {keep}
           c == [NoCall EXCEPT !.op = op, !.rows = sessions]
<1>1. c \in CallType /\ c.op = op /\ c.rows = sessions /\ c.at = 0
  <2>1. sessions \in SUBSET Sessions /\ op \in HoldsUser
    BY DEF Unrevoked, HoldsUser
  <2> HIDE DEF sessions
  <2> QED
    BY <2>1, NoCallTyped DEF CallType
<1>2. clock \in Nat /\ (op = "changing" => sessions = Unrevoked)
  BY SessionAssumption DEF SessionInv, SessionTypeOK, RevokeAllLocks, Unrevoked
<1>3. /\ ~UserLocked /\ (\A s \in sessions : ~Locked(s)) /\ marked \subseteq sessions /\ Bar(marked, clock)
      /\ Enter(r, c) \/ Enter(r, NoCall)
      /\ UNCHANGED <<clock, account, row, pending, public, handed>>
  BY DEF RevokeAllLocks, Leave
<1>4. \A s \in sessions : s \in Sessions /\ row[s].state = "live"
  BY DEF Unrevoked
<1> HIDE DEF sessions, c
<1>5. BarsGrow
  BY <1>2, <1>3, <1>4, BarFields DEF SessionInv
<1>6. Sound(r, c)
  BY <1>1, <1>2, <1>3, <1>4, UnlockedRows, UnlockedUser DEF Sound, HoldsUser, HoldsRow, NamesRow
<1>7. CASE Enter(r, c)
  BY <1>3, <1>5, <1>6, <1>7, CallKeeps
<1>8. CASE Enter(r, NoCall)
  BY <1>3, <1>5, <1>8, NoCallSound, CallKeeps DEF SessionInv
<1> QED
  BY <1>3, <1>7, <1>8

LEMMA RevokeCommitsKeeps ==
    ASSUME SessionInv, NEW r \in Requests,
           RevokeCommits(r) \/ RevokeAllCommits(r) \/ \E active \in BOOLEAN : SecurityChangeCommits(r, active)
    PROVE  SessionInv'
<1>1. CASE RevokeCommits(r)
  <2> DEFINE S == {call[r].sid}
  <2>1. call[r].sid \in Sessions /\ row[call[r].sid].state # "none"
    BY <1>1 DEF SessionInv, Locks, RevokeCommits, HoldsRow, NamesRow
  <2>2. \A q \in Requests : q # r => call[r].sid \notin call[q].rows
    BY <1>1, UnlockedRows DEF SessionInv, Locks, RevokeCommits, HoldsRow
  <2>3. RevokeLocked(S) /\ Leave(r) /\ UNCHANGED <<clock, account, barrier, pending, public, handed>>
    BY <1>1 DEF RevokeCommits
  <2>4. account' \in [active : BOOLEAN, auth : Nat]
    BY <2>3 DEF SessionInv, SessionTypeOK
  <2> QED
    BY <2>1, <2>2, <2>3, <2>4, RevokeKeeps
<1>2. ASSUME RevokeAllCommits(r) \/ \E active \in BOOLEAN : SecurityChangeCommits(r, active) PROVE SessionInv'
  <2> DEFINE S == call[r].rows
  <2>1. S \in SUBSET Sessions
    BY DEF SessionInv, SessionTypeOK, CallType
  <2>2. \A s \in S : row[s].state # "none" /\ \A q \in Requests : q # r => s \notin call[q].rows
    BY DEF SessionInv, Locks
  <2>3. RevokeLocked(S) /\ Leave(r) /\ UNCHANGED <<clock, barrier, pending, public, handed>>
    BY <1>2 DEF RevokeAllCommits, SecurityChangeCommits
  <2>4. account' \in [active : BOOLEAN, auth : Nat] /\ (account' = account \/ call[r].op = "changing")
    BY <1>2 DEF SessionInv, SessionTypeOK, RevokeAllCommits, SecurityChangeCommits
  <2>5. account' = account \/ Unrevoked \subseteq S
    BY <2>4 DEF SessionInv, Swept
  <2> HIDE DEF S
  <2> QED
    BY <2>1, <2>2, <2>3, <2>4, <2>5, RevokeKeeps
<1> QED
  BY <1>1, <1>2

----------------------------------------------------------------------------
(* Refresh *)

\* What is recovered was asked for, and is promoted or was public already.
LEMMA PromoteFields ==
    ASSUME SessionInv, NEW s \in Sessions, NEW secret \in Nat, Promote(s, Recovered(s, secret))
    PROVE  /\ pending' \in [Sessions -> ResultType] /\ public' \in [Sessions -> ResultType]
           /\ \A u \in Sessions : u # s => pending'[u] = pending[u] /\ public'[u] = public[u]
           /\ \/ /\ pending'[s] = pending[s] /\ public'[s] = public[s]
                 /\ Recovered(s, secret) = 0 \/ (Recovered(s, secret) = secret /\ public[s].target = secret)
              \/ /\ pending[s].target = secret /\ Recovered(s, secret) = secret /\ secret # 0
                 /\ pending'[s] = NoResult
                 /\ public'[s].target = secret /\ public'[s].until = clock + Window
<1> DEFINE found == Recovered(s, secret)
<1>1. clock + Window \in Nat /\ NoResult \in ResultType
  BY Periods DEF SessionInv, SessionTypeOK, NoResult, ResultType
<1>2. found = 0 \/ (found = secret /\ (public[s].target = secret \/ pending[s].target = secret))
  BY DEF Recovered, Holds
<1> HIDE DEF found
<1>3. CASE found = 0 \/ Holds(public, s, found)
  BY <1>2, <1>3 DEF Promote, Holds, SessionInv, SessionTypeOK, found
<1>4. CASE ~(found = 0 \/ Holds(public, s, found))
  <2>1. /\ public' = [public EXCEPT ![s] = [target |-> found, until |-> clock + Window]]
        /\ pending' = [pending EXCEPT ![s] = NoResult]
    BY <1>4 DEF Promote, found
  <2>2. [target |-> found, until |-> clock + Window] \in ResultType
    BY <1>1, <1>2 DEF ResultType
  <2>3. found = secret /\ secret # 0 /\ pending[s].target = secret
    BY <1>2, <1>4 DEF Holds
  <2>4. pending' \in [Sessions -> ResultType] /\ public' \in [Sessions -> ResultType]
    BY <1>1, <2>1, <2>2 DEF SessionInv, SessionTypeOK
  <2>5. public'[s] = [target |-> found, until |-> clock + Window] /\ pending'[s] = NoResult
    BY <2>1 DEF SessionInv, SessionTypeOK
  <2> QED
    BY <2>1, <2>3, <2>4, <2>5 DEF SessionInv, SessionTypeOK, found
<1> QED
  BY <1>3, <1>4

\* A result found for a committed secret is shared, and perhaps given out.
LEMMA PublishKeeps ==
    ASSUME SessionInv, NEW r \in Requests, NEW s \in Sessions, NEW secret \in row[s].past,
           Promote(s, Recovered(s, secret)), NEW c, Sound(r, c), Enter(r, c),
           \/ handed' = handed
           \/ Recovered(s, secret) # 0 /\ handed' = handed \cup {[sid |-> s, secret |-> Recovered(s, secret)]},
           UNCHANGED <<clock, account, row, barrier>>
    PROVE  SessionInv'
<1>0. /\ call' \in [Requests -> CallType] /\ call'[r] = c
      /\ \A q \in Requests : q # r => call'[q] = call[q]
  BY EnterFields DEF Sound, SessionInv
<1>1. secret \in Nat /\ row[s] \in RowType /\ row[s].past # {} /\ row[s].state # "none" /\ clock \in Nat
  BY DEF SessionInv, SessionTypeOK, RowType, Blank, NoRow
<1>2. /\ pending' \in [Sessions -> ResultType] /\ public' \in [Sessions -> ResultType]
      /\ \A u \in Sessions : u # s => pending'[u] = pending[u] /\ public'[u] = public[u]
      /\ \/ /\ pending'[s] = pending[s] /\ public'[s] = public[s]
            /\ Recovered(s, secret) = 0 \/ (Recovered(s, secret) = secret /\ public[s].target = secret)
         \/ /\ pending[s].target = secret /\ Recovered(s, secret) = secret /\ secret # 0
            /\ pending'[s] = NoResult
            /\ public'[s].target = secret /\ public'[s].until = clock + Window
  BY <1>1, PromoteFields
<1>3. handed' \subseteq handed \cup {[sid |-> s, secret |-> secret]} /\ handed \subseteq handed'
  BY <1>2
<1>4. SessionTypeOK'
  <2>1. [sid |-> s, secret |-> secret] \in [sid : Sessions, secret : Nat]
    BY <1>1
  <2> QED
    BY <1>0, <1>2, <1>3, <2>1 DEF SessionInv, SessionTypeOK
<1>5. Locks' /\ Swept'
  BY <1>0 DEF SessionInv, SessionTypeOK, Locks, Sound, Swept, Unrevoked
<1>6. Blank'
  BY <1>1, <1>2 DEF SessionInv, Blank
<1>7. Timely' /\ BornUnderVersion'
  BY <1>0 DEF SessionInv, Timely, BornUnderVersion, Sound, Barred
<1>8. HandedAreCommitted'
  BY <1>3 DEF SessionInv, HandedAreCommitted
<1>9. Shown'
  BY <1>0, <1>3 DEF SessionInv, Shown, Sound
<1>10. ASSUME row[s].state = "live", pending[s].target = secret, secret # 0
       PROVE  secret = row[s].drawn /\ secret = row[s].current /\ row[s].prevUntil <= clock + Window
  BY <1>10 DEF SessionInv, Drawn
<1>11. Drawn'
  BY <1>1, <1>2 DEF SessionInv, Drawn, NoResult
<1>12. Windows'
  <2>1. ASSUME NEW u \in Sessions, u # s, Open(u)
        PROVE  /\ Keeps(public', u) \/ Keeps(pending', u)
               /\ public'[u].target = row[u].current => Keeps(public', u)
               /\ [sid |-> u, secret |-> row[u].current] \in handed' => Keeps(public', u)
    BY <1>2, <1>3, <2>1 DEF SessionInv, Windows, Keeps
  <2>2. ASSUME Open(s)
        PROVE  /\ Keeps(public', s) \/ Keeps(pending', s)
               /\ public'[s].target = row[s].current => Keeps(public', s)
               /\ [sid |-> s, secret |-> row[s].current] \in handed' => Keeps(public', s)
    <3>1. row[s].state = "live"
      BY <2>2 DEF Open
    <3>2. CASE pending'[s] = pending[s] /\ public'[s] = public[s]
      BY <1>2, <2>2, <3>2 DEF SessionInv, Windows, Keeps
    <3>3. CASE ~(pending'[s] = pending[s] /\ public'[s] = public[s])
      BY <1>2, <1>10, <3>1, <3>3 DEF Keeps
    <3> QED
      BY <3>2, <3>3
  <2> QED
    BY <2>1, <2>2 DEF Windows, Open, Keeps
<1>13. Rotating'
  <2>1. ASSUME NEW q \in Requests, call'[q].op = "rotating"
        PROVE  call'[q] = call[q] /\ call[q].sid \in Sessions /\ row[call[q].sid].state = "live"
    BY <1>0, <2>1 DEF SessionInv, Locks, Sound, HoldsRow, NamesRow
  <2>2. ASSUME NEW q \in Requests, call[q].op = "rotating", row[call[q].sid].state = "live", call[q].sid \in Sessions
        PROVE  pending'[call[q].sid] = pending[call[q].sid]
    BY <1>1, <1>2, <1>10, <2>2 DEF SessionInv, Rotating
  <2> QED
    BY <2>1, <2>2 DEF SessionInv, Rotating
<1> QED
  BY <1>4, <1>5, <1>6, <1>7, <1>8, <1>9, <1>11, <1>12, <1>13 DEF SessionInv

LEMMA RecoversKeeps == ASSUME SessionInv, NEW r \in Requests, RefreshRecovers(r) PROVE SessionInv'
<1> DEFINE s == call[r].sid
           c == [call[r] EXCEPT !.op = "publishing", !.secret = row[s].current]
<1>1. /\ call[r] \in CallType /\ call[r].at \in Nat /\ call[r].at <= clock /\ call[r].op = "refresh"
      /\ s \in Sessions /\ call[r].rows = {}
  BY DEF SessionInv, SessionTypeOK, Timely, CallType, RefreshRecovers, Refreshing, Locks, HoldsUser, HoldsRow, NamesRow
<1>2. row[s].state = "live" /\ row[s] \in RowType
  BY <1>1 DEF RefreshRecovers, IsPrevious, Live, SessionInv, SessionTypeOK
<1>3. row[s].current \in row[s].past /\ row[s].current \in Nat
  BY <1>1, <1>2 DEF SessionInv, Drawn, RowType
<1>4. /\ c \in CallType /\ c.op = "publishing" /\ c.rows = {} /\ c.at = call[r].at /\ c.sid = s
      /\ c.secret = row[s].current
  BY <1>1, <1>3 DEF CallType, NamesRow
<1>5. /\ Promote(s, Recovered(s, row[s].current)) /\ UNCHANGED <<clock, account, row, barrier, handed>>
      /\ Enter(r, c) \/ Enter(r, NoCall)
  BY DEF RefreshRecovers, Leave
<1> HIDE DEF s, c
<1>6. Sound(r, c)
  BY <1>1, <1>2, <1>3, <1>4 DEF Sound, HoldsUser, HoldsRow, NamesRow
<1>7. CASE Enter(r, c)
  BY <1>1, <1>3, <1>5, <1>6, <1>7, PublishKeeps
<1>8. CASE Enter(r, NoCall)
  BY <1>1, <1>3, <1>5, <1>8, NoCallSound, PublishKeeps DEF SessionInv
<1> QED
  BY <1>5, <1>7, <1>8

LEMMA PublishesKeeps == ASSUME SessionInv, NEW r \in Requests, RefreshPublishes(r) PROVE SessionInv'
<1>1. call[r].sid \in Sessions /\ call[r].secret \in row[call[r].sid].past
  BY DEF SessionInv, Locks, Shown, RefreshPublishes, NamesRow
<1>2. Sound(r, NoCall)
  BY NoCallSound DEF SessionInv
<1>3. /\ Promote(call[r].sid, Recovered(call[r].sid, call[r].secret)) /\ Enter(r, NoCall)
      /\ UNCHANGED <<clock, account, row, barrier>>
      /\ \/ handed' = handed
         \/ /\ Recovered(call[r].sid, call[r].secret) # 0
            /\ handed' = handed \cup {[sid |-> call[r].sid, secret |-> Recovered(call[r].sid, call[r].secret)]}
  BY DEF RefreshPublishes, Leave
<1> QED
  BY <1>1, <1>2, <1>3, PublishKeeps

LEMMA RotateStartsKeeps == ASSUME SessionInv, NEW r \in Requests, RotateStarts(r) PROVE SessionInv'
<1>0. PICK s \in Sessions : s = call[r].sid
  BY DEF SessionInv, Locks, RotateStarts, Refreshing, NamesRow
<1> DEFINE c == [call[r] EXCEPT !.op = "rotating", !.rows = {s}]
           drawn == row[s].drawn + 1
<1>1. /\ call[r] \in CallType /\ call[r].at \in Nat /\ call[r].at <= clock /\ call[r].op = "refresh"
      /\ s \in Sessions /\ clock \in Nat /\ Window \in Nat
  BY <1>0, Periods DEF SessionInv, SessionTypeOK, Timely, CallType, RotateStarts, Refreshing, Locks, NamesRow
<1>2. /\ row[s].state = "live" /\ row[s] \in RowType /\ row[s].drawn \in Nat
      /\ row[s].current = call[r].secret /\ \A q \in Requests : s \notin call[q].rows
  BY <1>0, <1>1, UnlockedRows DEF RotateStarts, Refreshing, IsCurrent, Live, SessionInv, SessionTypeOK, RowType
<1>3. c \in CallType /\ c.op = "rotating" /\ c.rows = {s} /\ c.at = call[r].at /\ c.sid = s
  BY <1>0, <1>1 DEF CallType, NamesRow, HoldsRow
<1>4. /\ call' = [call EXCEPT ![r] = c] /\ row' = [row EXCEPT ![s].drawn = drawn]
      /\ pending' = [pending EXCEPT ![s] = [target |-> drawn, until |-> clock + Window]]
      /\ UNCHANGED <<clock, account, barrier, public, handed>>
  BY <1>0 DEF RotateStarts, Enter, StorePending
<1>5. /\ row' \in [Sessions -> RowType] /\ \A u \in Sessions : u # s => row'[u] = row[u]
      /\ row'[s].state = "live" /\ row'[s].drawn = drawn /\ row'[s].past = row[s].past
      /\ row'[s].current = row[s].current /\ row'[s].prevUntil = row[s].prevUntil
      /\ row'[s].expires = row[s].expires /\ row'[s].born = row[s].born
  <2>1. row'[s] = [row[s] EXCEPT !.drawn = drawn] /\ \A u \in Sessions : u # s => row'[u] = row[u]
    BY <1>1, <1>4 DEF SessionInv, SessionTypeOK
  <2>2. [row[s] EXCEPT !.drawn = drawn] \in RowType
    BY <1>2 DEF RowType
  <2>3. row' \in [Sessions -> RowType]
    BY <1>4, <2>1, <2>2 DEF SessionInv, SessionTypeOK
  <2> QED
    BY <1>2, <2>1, <2>3 DEF RowType
<1>6. /\ pending' \in [Sessions -> ResultType] /\ \A u \in Sessions : u # s => pending'[u] = pending[u]
      /\ pending'[s].target = drawn /\ pending'[s].until = clock + Window
  BY <1>1, <1>2, <1>4 DEF SessionInv, SessionTypeOK, ResultType
<1>7. call' \in [Requests -> CallType] /\ call'[r] = c /\ \A q \in Requests : q # r => call'[q] = call[q]
  BY <1>3, <1>4 DEF SessionInv, SessionTypeOK
<1>8. Keeps(public, s) \/ ~Open(s)
  BY <1>0, <1>1, <1>2 DEF SessionInv, Shown, Windows, Open
<1>9. drawn \notin row[s].past
  BY <1>1, <1>2 DEF SessionInv, Drawn
<1> HIDE DEF c
<1>10. SessionTypeOK'
  BY <1>4, <1>5, <1>6, <1>7 DEF SessionInv, SessionTypeOK
<1>11. Locks'
  BY <1>1, <1>2, <1>3, <1>5, <1>7 DEF SessionInv, SessionTypeOK, Locks, CallType, HoldsUser, HoldsRow, NamesRow
<1>12. Blank' /\ BornUnderVersion' /\ HandedAreCommitted'
  BY <1>1, <1>2, <1>4, <1>5, <1>6 DEF SessionInv, Blank, BornUnderVersion, HandedAreCommitted, SessionTypeOK
<1>13. Swept'
  BY <1>2, <1>3, <1>5, <1>7 DEF SessionInv, Swept, Unrevoked
<1>14. Timely'
  BY <1>1, <1>2, <1>3, <1>4, <1>5, <1>7 DEF SessionInv, Timely, Barred
<1>15. Shown'
  BY <1>3, <1>4, <1>5, <1>7 DEF SessionInv, Shown, Locks, NamesRow
<1>16. Drawn'
  <2>1. ASSUME NEW x \in row[s].past PROVE x >= 1 /\ x <= drawn
    BY <1>1, <1>2 DEF SessionInv, Drawn, SessionTypeOK, RowType
  <2>2. row[s].current \in row[s].past /\ public[s].target \in row[s].past \cup {0} /\ row[s].prevUntil <= clock + Window
    BY <1>1, <1>2 DEF SessionInv, Drawn
  <2> HIDE DEF drawn
  <2>3. ASSUME NEW u \in Sessions, u # s PROVE row'[u] = row[u] /\ pending'[u] = pending[u]
    BY <1>5, <1>6, <2>3
  <2> QED
    BY <1>4, <1>5, <1>6, <1>9, <2>1, <2>2, <2>3 DEF SessionInv, Drawn
<1>17. Windows'
  <2>1. ASSUME NEW u \in Sessions, u # s PROVE row'[u] = row[u] /\ pending'[u] = pending[u]
    BY <1>5, <1>6, <2>1
  <2>2. Open(s)' <=> Open(s)
    BY <1>2, <1>4, <1>5 DEF Open
  <2>3. Keeps(public, s)' <=> Keeps(public, s)
    BY <1>4, <1>5 DEF Keeps
  <2> QED
    BY <1>4, <1>8, <2>1, <2>2, <2>3 DEF SessionInv, Windows, Open, Keeps
<1>18. Rotating'
  <2>1. ASSUME NEW q \in Requests, q # r, call[q].op = "rotating"
        PROVE  call[q].sid \in Sessions /\ call[q].sid # s
    BY <1>2, <2>1 DEF SessionInv, Locks, HoldsRow, NamesRow
  <2>2. \A q \in Requests : q # r /\ call[q].op = "rotating" =>
           /\ row'[call[q].sid] = row[call[q].sid] /\ pending'[call[q].sid] = pending[call[q].sid]
    BY <1>5, <1>6, <2>1
  <2>3. drawn \notin row'[s].past /\ pending'[s].target = row'[s].drawn /\ pending'[s].until >= c.at + Window
    BY <1>1, <1>3, <1>5, <1>6, <1>9
  <2> HIDE DEF drawn
  <2> QED
    BY <1>3, <1>4, <1>5, <1>7, <2>2, <2>3 DEF SessionInv, Rotating
<1> QED
  BY <1>10, <1>11, <1>12, <1>13, <1>14, <1>15, <1>16, <1>17, <1>18 DEF SessionInv

LEMMA RotateCommitsKeeps == ASSUME SessionInv, NEW r \in Requests, RotateCommits(r) PROVE SessionInv'
<1>0. PICK s \in Sessions : s = call[r].sid
  BY DEF SessionInv, Locks, RotateCommits, NamesRow, HoldsRow
<1> DEFINE c == [call[r] EXCEPT !.op = "publishing", !.secret = row[s].drawn, !.rows = {}]
           drawn == row[s].drawn
           ends == call[r].at + Window
<1>1. /\ call[r] \in CallType /\ call[r].at \in Nat /\ call[r].at <= clock /\ call[r].op = "rotating"
      /\ s \in Sessions /\ call[r].rows = {s} /\ clock \in Nat /\ Window \in Nat
  BY <1>0, Periods DEF SessionInv, SessionTypeOK, Timely, CallType, RotateCommits, Locks, NamesRow, HoldsRow
<1>2. /\ row[s].state = "live" /\ row[s] \in RowType /\ drawn \in Nat
      /\ \A q \in Requests : q # r => s \notin call[q].rows
  BY <1>1 DEF SessionInv, SessionTypeOK, RowType, Locks
<1>3. c \in CallType /\ c.op = "publishing" /\ c.rows = {} /\ c.at = call[r].at /\ c.sid = s /\ c.secret = drawn
  BY <1>0, <1>1, <1>2 DEF CallType, NamesRow
<1>4. /\ call' = [call EXCEPT ![r] = c]
      /\ row' = [row EXCEPT ![s].current = drawn, ![s].previous = row[s].current,
                            ![s].prevUntil = ends, ![s].past = @ \cup {drawn}]
      /\ UNCHANGED <<clock, account, barrier, pending, public, handed>>
  BY <1>0 DEF RotateCommits, Enter
<1>5. /\ row' \in [Sessions -> RowType] /\ \A u \in Sessions : u # s => row'[u] = row[u]
      /\ row'[s].state = "live" /\ row'[s].drawn = drawn /\ row'[s].past = row[s].past \cup {drawn}
      /\ row'[s].current = drawn /\ row'[s].prevUntil = ends
      /\ row'[s].expires = row[s].expires /\ row'[s].born = row[s].born
  <2> DEFINE new == [row[s] EXCEPT !.current = drawn, !.previous = row[s].current, !.prevUntil = ends,
                                   !.past = @ \cup {drawn}]
  <2>1. row' = [row EXCEPT ![s] = new]
    BY <1>1, <1>4 DEF SessionInv, SessionTypeOK
  <2>2. ends \in Nat /\ row[s].past \cup {drawn} \in SUBSET Nat /\ row[s].current \in Nat
    BY <1>1, <1>2 DEF RowType
  <2>3. new \in RowType
    BY <1>2, <2>2 DEF RowType
  <2>4. /\ new.state = "live" /\ new.drawn = drawn /\ new.past = row[s].past \cup {drawn}
        /\ new.current = drawn /\ new.prevUntil = ends /\ new.expires = row[s].expires /\ new.born = row[s].born
    BY <1>2 DEF RowType
  <2> HIDE DEF new
  <2> QED
    BY <1>1, <2>1, <2>3, <2>4 DEF SessionInv, SessionTypeOK
<1>6. call' \in [Requests -> CallType] /\ call'[r] = c /\ \A q \in Requests : q # r => call'[q] = call[q]
  BY <1>3, <1>4 DEF SessionInv, SessionTypeOK
<1>7. /\ drawn \notin row[s].past
      /\ ends > clock => pending[s].target = drawn /\ pending[s].until >= ends
  BY <1>0, <1>1 DEF SessionInv, Rotating
<1>8. /\ \A x \in row[s].past : x >= 1 /\ x <= drawn
      /\ row[s].current \in row[s].past /\ pending[s].target \in {0, drawn}
      /\ public[s].target \in row[s].past \cup {0}
  BY <1>1, <1>2 DEF SessionInv, Drawn
<1>9. drawn >= 1 /\ public[s].target # drawn /\ ends <= clock + Window /\ ends \in Nat
  <2>1. ends <= clock + Window /\ ends \in Nat
    BY <1>1
  <2>2. row[s].current \in Nat /\ row[s].current >= 1 /\ row[s].current <= drawn
    BY <1>2, <1>8 DEF RowType
  <2>3. drawn >= 1
    BY <1>2, <2>2
  <2> QED
    BY <1>7, <1>8, <2>1, <2>3
<1>10. [sid |-> s, secret |-> drawn] \notin handed
  BY <1>7 DEF SessionInv, HandedAreCommitted
<1> HIDE DEF c, drawn, ends
<1>11. SessionTypeOK'
  BY <1>4, <1>5, <1>6 DEF SessionInv, SessionTypeOK
<1>12. Locks'
  BY <1>1, <1>2, <1>3, <1>5, <1>6 DEF SessionInv, SessionTypeOK, Locks, CallType, HoldsUser, HoldsRow, NamesRow
<1>13. Blank' /\ BornUnderVersion' /\ HandedAreCommitted'
  BY <1>1, <1>2, <1>4, <1>5 DEF SessionInv, Blank, BornUnderVersion, HandedAreCommitted, SessionTypeOK
<1>14. Swept'
  BY <1>2, <1>3, <1>5, <1>6 DEF SessionInv, Swept, Unrevoked
<1>15. Timely'
  BY <1>1, <1>2, <1>3, <1>4, <1>5, <1>6 DEF SessionInv, Timely, Barred
<1>16. Shown'
  BY <1>3, <1>4, <1>5, <1>6 DEF SessionInv, Shown, Locks, NamesRow
<1>17. Drawn'
  <2>1. ASSUME NEW u \in Sessions, u # s PROVE row'[u] = row[u]
    BY <1>5, <2>1
  <2>2. \A x \in row'[s].past : x >= 1 /\ x <= drawn
    BY <1>2, <1>5, <1>8, <1>9
  <2> QED
    BY <1>4, <1>5, <1>8, <1>9, <2>1, <2>2 DEF SessionInv, Drawn
<1>18. Windows'
  <2>1. ASSUME NEW u \in Sessions, u # s PROVE row'[u] = row[u]
    BY <1>5, <2>1
  <2>2. Open(s)' => Keeps(pending, s)'
    BY <1>4, <1>5, <1>7 DEF Open, Keeps
  <2> QED
    BY <1>4, <1>5, <1>9, <1>10, <2>1, <2>2 DEF SessionInv, Windows, Open, Keeps
<1>19. Rotating'
  <2>1. ASSUME NEW q \in Requests, call'[q].op = "rotating"
        PROVE  call'[q] = call[q] /\ call[q].op = "rotating" /\ row'[call[q].sid] = row[call[q].sid]
    BY <1>2, <1>3, <1>5, <1>6, <2>1 DEF SessionInv, Locks, HoldsRow, NamesRow
  <2>2. pending' = pending /\ clock' = clock
    BY <1>4
  <2> QED
    BY <2>1, <2>2 DEF SessionInv, Rotating
<1> QED
  BY <1>11, <1>12, <1>13, <1>14, <1>15, <1>16, <1>17, <1>18, <1>19 DEF SessionInv

----------------------------------------------------------------------------
(* A session is created, and time passes *)

LEMMA CreateCommitsKeeps ==
    ASSUME SessionInv, NEW r \in Requests, NEW s \in Sessions, NEW life \in Lives, CreateCommits(r, s, life)
    PROVE  SessionInv'
<1> DEFINE nth == 1 + Cardinality({v \in Sessions : row[v].state # "none"})
           ends == call[r].at + life
           new == [NoRow EXCEPT !.state = "live", !.born = account.auth, !.expires = ends, !.birth = nth,
                                !.drawn = 1, !.current = 1, !.past = {1}]
           R == call[r].rows
<1>00. call[r].op = "creating" /\ row[s].state = "none"
  BY Zenon DEF CreateCommits
<1>0. /\ row' = [u \in Sessions |-> IF u = s THEN new ELSE IF u \in R THEN Revoked(u) ELSE row[u]]
      /\ Enter(r, NoCall) /\ UNCHANGED <<clock, account, barrier, pending, public>>
      /\ handed' = handed \/ handed' = handed \cup {[sid |-> s, secret |-> 1]}
  BY Zenon DEF CreateCommits, Leave
<1>1. /\ call[r] \in CallType /\ call[r].at \in Nat /\ call[r].op = "creating" /\ R \in SUBSET Sessions
      /\ clock \in Nat /\ account.auth \in Nat /\ Window \in Nat
  BY <1>00, Periods DEF SessionInv, SessionTypeOK, CallType
<1>2. /\ row[s] = NoRow /\ barrier[s] = 0 /\ pending[s] = NoResult /\ public[s] = NoResult
      /\ \A q \in Requests : s \notin call[q].rows
  BY <1>00 DEF SessionInv, Blank, Locks
<1>3. new \in RowType /\ new.state = "live" /\ new.born = account.auth /\ new.drawn = 1 /\ new.current = 1
      /\ new.past = {1} /\ new.prevUntil = 0
  <2>1. nth \in Nat
    <3>1. Cardinality({v \in Sessions : row[v].state # "none"}) \in Nat
      BY SessionAssumption, FS_Subset, FS_CardinalityType
    <3> QED
      BY <3>1
  <2>2. ends \in Nat
    BY <1>1, Periods
  <2> HIDE DEF nth, ends
  <2>3. NoRow \in RowType /\ NoRow.prevUntil = 0
    BY DEF RowType, NoRow
  <2>4. {1} \in SUBSET Nat /\ 1 \in Nat /\ account.auth \in Nat
    BY <1>1
  <2>5. new \in RowType
    BY <2>1, <2>2, <2>3, <2>4 DEF RowType
  <2>6. new.state = "live" /\ new.born = account.auth /\ new.drawn = 1
    BY <2>3 DEF RowType
  <2>7. new.current = 1 /\ new.past = {1} /\ new.prevUntil = 0
    BY <2>3 DEF RowType
  <2> QED
    BY <2>5, <2>6, <2>7
<1>4. ASSUME NEW u \in R
      PROVE  Revoked(u) \in RowType /\ Revoked(u).state = "revoked" /\ Revoked(u).past = row[u].past
  <2>1. row[u] \in RowType
    BY <1>1, <1>4 DEF SessionInv, SessionTypeOK
  <2> QED
    BY <2>1 DEF RowType, Revoked, NoRow
<1> HIDE DEF new, R
<1>6. /\ row' \in [Sessions -> RowType] /\ row'[s] = new
      /\ \A u \in Sessions : u # s => IF u \in R THEN row'[u].state = "revoked" /\ row'[u].past = row[u].past
                                      ELSE row'[u] = row[u]
  BY <1>3, <1>4, <1>0 DEF SessionInv, SessionTypeOK
<1>7. /\ call' \in [Requests -> CallType] /\ call'[r] = NoCall
      /\ \A q \in Requests : q # r => call'[q] = call[q]
  BY <1>0, EnterFields, NoCallTyped DEF SessionInv
<1>8. \A u \in Sessions, q \in Requests : q # r /\ u \in call[q].rows => row'[u] = row[u] /\ row[u].state = "live"
  BY <1>2, <1>6 DEF SessionInv, Locks, R
<1>9. SessionTypeOK'
  <2>1. [sid |-> s, secret |-> 1] \in [sid : Sessions, secret : Nat]
    OBVIOUS
  <2> QED
    BY <1>0, <1>6, <1>7, <2>1 DEF SessionInv, SessionTypeOK
<1>10. Locks'
  <2>1. NoCall.rows = {} /\ NoCall.op \notin HoldsUser \cup HoldsRow \cup NamesRow
    BY DEF NoCall, HoldsUser, HoldsRow, NamesRow
  <2>2. ASSUME NEW q \in Requests, NEW u \in call'[q].rows PROVE row'[u].state = "live"
    BY <1>7, <1>8, <2>1, <2>2 DEF SessionInv, SessionTypeOK, CallType
  <2>3. ASSUME NEW q \in Requests, call'[q].op \in NamesRow
        PROVE  call'[q].sid \in Sessions /\ row'[call'[q].sid].state # "none"
    BY <1>3, <1>6, <1>7, <2>1, <2>3 DEF SessionInv, Locks
  <2>4. ASSUME NEW q \in Requests
        PROVE  /\ call'[q].op \notin HoldsUser \cup HoldsRow => call'[q].rows = {}
               /\ call'[q].op \in HoldsRow => call'[q].rows = {call'[q].sid}
    BY <1>7, <2>1, <2>4 DEF SessionInv, Locks
  <2>5. ASSUME NEW q \in Requests, NEW p \in Requests
        PROVE  /\ call'[q].op \in HoldsUser /\ call'[p].op \in HoldsUser => q = p
               /\ q # p => call'[q].rows \cap call'[p].rows = {}
    BY <1>7, <2>1, <2>5 DEF SessionInv, Locks
  <2> QED
    BY <2>2, <2>3, <2>4, <2>5 DEF Locks
<1>11. Blank'
  BY <1>3, <1>0, <1>6 DEF SessionInv, Blank
<1>12. Swept'
  <2>1. \A q \in Requests : call'[q].op # "changing"
    BY <1>1, <1>7, NoCallTyped DEF SessionInv, Locks, HoldsUser
  <2> QED
    BY <2>1 DEF Swept
<1>13. Timely'
  BY <1>1, <1>2, <1>0, <1>6, <1>7, NoCallTyped DEF SessionInv, Timely, Barred
<1>14. BornUnderVersion'
  BY <1>3, <1>0, <1>6 DEF SessionInv, BornUnderVersion
<1>15. HandedAreCommitted'
  <2>1. ASSUME NEW token \in handed PROVE token.secret \in row'[token.sid].past
    BY <1>2, <1>6, <2>1 DEF SessionInv, SessionTypeOK, HandedAreCommitted, NoRow
  <2> QED
    BY <1>3, <1>0, <1>6, <2>1 DEF HandedAreCommitted
<1>16. Shown'
  BY <1>2, <1>0, <1>6, <1>7, NoCallTyped DEF SessionInv, Shown, Locks, NamesRow, NoRow
<1>17. Drawn'
  BY <1>1, <1>2, <1>3, <1>0, <1>6 DEF SessionInv, Drawn, NoResult
<1>18. Windows'
  <2>1. ASSUME NEW u \in Sessions, Open(u)' PROVE u # s /\ row'[u] = row[u]
    BY <1>1, <1>3, <1>0, <1>6, <2>1 DEF Open
  <2>2. ASSUME NEW u \in Sessions, u # s
        PROVE  [sid |-> u, secret |-> row[u].current] \in handed' => [sid |-> u, secret |-> row[u].current] \in handed
    BY <1>0, <2>2
  <2> QED
    BY <1>0, <2>1, <2>2 DEF SessionInv, Windows, Open, Keeps
<1>19. Rotating'
  <2>1. ASSUME NEW q \in Requests, call'[q].op = "rotating"
        PROVE  call'[q] = call[q] /\ call[q].op = "rotating" /\ row'[call[q].sid] = row[call[q].sid]
    BY <1>7, <1>8, <2>1, NoCallTyped DEF SessionInv, Locks, HoldsRow, NamesRow
  <2>2. pending' = pending /\ clock' = clock
    BY <1>0
  <2> QED
    BY <2>1, <2>2 DEF SessionInv, Rotating
<1> QED
  BY <1>9, <1>10, <1>11, <1>12, <1>13, <1>14, <1>15, <1>16, <1>17, <1>18, <1>19 DEF SessionInv

LEMMA TickKeeps == ASSUME SessionInv, ClockTicks PROVE SessionInv'
<1>1. /\ clock \in Nat /\ clock' \in Nat /\ clock' >= clock /\ Window \in Nat
      /\ UNCHANGED <<account, row, handed, call>>
  BY Periods DEF SessionInv, SessionTypeOK, ClockTicks
<1>2. NoResult \in ResultType /\ NoResult.target = 0
  BY DEF NoResult, ResultType
<1>3. /\ barrier' \in [Sessions -> Nat]
      /\ \A s \in Sessions : barrier'[s] \in {0, barrier[s]}
  BY DEF SessionInv, SessionTypeOK, ClockTicks
<1>4. /\ pending' \in [Sessions -> ResultType] /\ public' \in [Sessions -> ResultType]
      /\ \A s \in Sessions : /\ pending'[s] \in {NoResult, pending[s]} /\ public'[s] \in {NoResult, public[s]}
                             /\ pending[s].until > clock' => pending'[s] = pending[s]
                             /\ public[s].until > clock' => public'[s] = public[s]
  BY <1>2 DEF SessionInv, SessionTypeOK, ClockTicks
<1>5. SessionTypeOK'
  BY <1>1, <1>3, <1>4 DEF SessionInv, SessionTypeOK
<1>6. Locks' /\ Swept' /\ BornUnderVersion' /\ HandedAreCommitted' /\ Shown'
  BY <1>1 DEF SessionInv, Locks, Swept, BornUnderVersion, HandedAreCommitted, Shown, Unrevoked
<1>7. Blank'
  BY <1>1, <1>3, <1>4 DEF SessionInv, Blank
<1>8. Timely'
  <2>1. \A r \in Requests : call[r].at \in Nat
    BY DEF SessionInv, SessionTypeOK, CallType
  <2> QED
    BY <1>1, <1>3, <2>1 DEF SessionInv, Timely, Barred
<1>9. Drawn'
  <2>1. \A s \in Sessions : row[s].prevUntil \in Nat
    BY DEF SessionInv, SessionTypeOK, RowType
  <2>2. \A s \in Sessions : row[s].prevUntil <= clock + Window => row[s].prevUntil <= clock' + Window
    BY <1>1, <2>1
  <2>3. \A s \in Sessions : pending'[s].target \in {0, pending[s].target} /\ public'[s].target \in {0, public[s].target}
    BY <1>2, <1>4
  <2> QED
    BY <1>1, <2>2, <2>3 DEF SessionInv, Drawn
<1>10. Windows'
  <2>1. ASSUME NEW s \in Sessions, Open(s)'
        PROVE  /\ Open(s) /\ row[s].current >= 1
               /\ Keeps(pending, s) => Keeps(pending', s)
               /\ Keeps(public, s) => Keeps(public', s)
    <3>1. row[s] \in RowType /\ pending[s] \in ResultType /\ public[s] \in ResultType
      BY DEF SessionInv, SessionTypeOK
    <3>2. row[s].prevUntil \in Nat /\ pending[s].until \in Nat /\ public[s].until \in Nat
      BY <3>1 DEF RowType, ResultType
    <3>3. row[s].prevUntil > clock' /\ row[s].state = "live"
      BY <1>1, <2>1 DEF Open
    <3> QED
      BY <1>1, <1>4, <3>2, <3>3 DEF Keeps, Open, SessionInv, Drawn
  <2>2. ASSUME NEW s \in Sessions, row[s].current >= 1, public'[s].target = row[s].current
        PROVE  public[s].target = row[s].current
    BY <1>2, <1>4, <2>2
  <2> QED
    BY <1>1, <2>1, <2>2 DEF SessionInv, Windows, Open, Keeps
<1>11. Rotating'
  <2>1. ASSUME NEW r \in Requests, call[r].op = "rotating", call[r].at + Window > clock'
        PROVE  call[r].sid \in Sessions /\ call[r].at + Window > clock
               /\ (pending[call[r].sid].until >= call[r].at + Window => pending'[call[r].sid] = pending[call[r].sid])
    <3>1. call[r].sid \in Sessions /\ call[r].at \in Nat
      BY <2>1 DEF SessionInv, SessionTypeOK, CallType, Locks, NamesRow, HoldsRow
    <3>2. pending[call[r].sid].until \in Nat
      BY <3>1 DEF SessionInv, SessionTypeOK, ResultType
    <3> QED
      BY <1>1, <1>4, <2>1, <3>1, <3>2
  <2> QED
    BY <1>1, <2>1 DEF SessionInv, Rotating
<1> QED
  BY <1>5, <1>6, <1>7, <1>8, <1>9, <1>10, <1>11 DEF SessionInv

----------------------------------------------------------------------------
(* Every step *)

LEMMA SessionInvNext == SessionInv /\ [SessionNext]_sessionVars => SessionInv'
<1> SUFFICES ASSUME SessionInv, [SessionNext]_sessionVars PROVE SessionInv'
  OBVIOUS
<1>1. ASSUME NEW r \in Requests,
             \/ LoginVerifies(r) \/ CreateLocks(r) \/ RefreshRefused(r) \/ RotateStarts(r) \/ RotateCommits(r)
             \/ RefreshRecovers(r) \/ RefreshPublishes(r) \/ ReplayStarts(r)
             \/ RevokeCommits(r) \/ RevokeAllCommits(r) \/ Dies(r)
      PROVE  SessionInv'
  BY <1>1, LoginKeeps, CreateLocksKeeps, LeaveKeeps, RotateStartsKeeps, RotateCommitsKeeps, RecoversKeeps,
     PublishesKeeps, ReplayKeeps, RevokeCommitsKeeps
<1>2. ASSUME NEW r \in Requests, NEW s \in Sessions, NEW life \in Lives, CreateCommits(r, s, life) PROVE SessionInv'
  BY <1>2, CreateCommitsKeeps
<1>3. ASSUME NEW r \in Requests, NEW s \in Sessions, RevokeBars(r, s) PROVE SessionInv'
  BY <1>3, RevokeBarsKeeps
<1>4. ASSUME NEW r \in Requests, NEW token \in handed, RefreshStarts(r, token) PROVE SessionInv'
  BY <1>4, RefreshStartsKeeps
<1>5. ASSUME NEW r \in Requests, NEW op \in {"revoking_all", "changing"}, NEW keep \in Sessions \cup {None},
             NEW marked \in SUBSET Sessions, RevokeAllLocks(r, op, keep, marked)
      PROVE  SessionInv'
  BY <1>5, RevokeAllLocksKeeps
<1>6. ASSUME NEW r \in Requests, NEW active \in BOOLEAN, SecurityChangeCommits(r, active) PROVE SessionInv'
  BY <1>6, RevokeCommitsKeeps
<1>7. CASE ClockTicks
  BY <1>7, TickKeeps
<1>8. CASE UNCHANGED sessionVars
  BY <1>8 DEF sessionVars, SessionInv, SessionTypeOK, Locks, Blank, Swept, Timely, BornUnderVersion,
     HandedAreCommitted, Shown, Drawn, Windows, Rotating, Unrevoked, Barred, Open, Keeps
<1> QED
  BY <1>1, <1>2, <1>3, <1>4, <1>5, <1>6, <1>7, <1>8 DEF SessionNext

\* The locks, the stores and the calls under way agree as SessionInv says, in every reachable state.
THEOREM SessionInvariant == SessionSpec => []SessionInv
<1>1. SessionInit => SessionInv
  BY SessionInvInit
<1>2. SessionInv /\ [SessionNext]_sessionVars => SessionInv'
  BY SessionInvNext
<1> QED
  BY <1>1, <1>2, PTL DEF SessionSpec

\* No session lives on under a version it was not born under, whoever creates one while a password or a
\* status changes (auth_session.go:77, auth_account.go:28-47).
THEOREM SessionBornUnderVersion == SessionSpec => []BornUnderVersion
<1>1. SessionInv => BornUnderVersion
  BY DEF SessionInv
<1> QED
  BY <1>1, SessionInvariant, PTL

\* Whatever Redis held before, a refresh token is only given out after MySQL committed it
\* (auth_redis.go:191-194).
THEOREM SessionHandedAreCommitted == SessionSpec => []HandedAreCommitted
<1>1. SessionInv => HandedAreCommitted
  BY DEF SessionInv
<1> QED
  BY <1>1, SessionInvariant, PTL

\* As long as the previous cookie is honoured the current secret can be recovered: from public once it was
\* given out, from pending before, whoever of the racing requests dies (auth_session.go:160-165).
THEOREM SessionRaceRecoverable == SessionSpec => []RaceRecoverable
<1>1. SessionInv => RaceRecoverable
  <2> SUFFICES ASSUME SessionInv, NEW s \in Sessions, Live(s, clock), row[s].prevUntil > clock
               PROVE  Recovered(s, row[s].current) # 0
    BY DEF RaceRecoverable
  <2>1. row[s].current \in row[s].past /\ row[s].current >= 1
    BY DEF SessionInv, Drawn, Live
  <2>2. public[s].target = row[s].current \/ pending[s].target = row[s].current
    BY DEF SessionInv, Windows, Open, Live, Keeps
  <2> QED
    BY <2>1, <2>2 DEF Recovered, Holds
<1> QED
  BY <1>1, SessionInvariant, PTL

----------------------------------------------------------------------------
(* A session that was denied stays denied *)

\* A row that was ever used is not made live again, and its end does not move.
LEMMA RowsAge ==
    ASSUME SessionInv, [SessionNext]_sessionVars, NEW s \in Sessions, row[s].state # "none", row'[s].state = "live"
    PROVE  row[s].state = "live" /\ row'[s].expires = row[s].expires
<1>0. row \in [Sessions -> RowType] /\ row[s] \in RowType
  BY DEF SessionInv, SessionTypeOK
<1>1. ASSUME NEW S, RevokeLocked(S) PROVE s \notin S /\ row'[s] = row[s]
  <2>1. Revoked(s).state = "revoked"
    BY DEF Revoked, NoRow
  <2> QED
    BY <1>1, <2>1 DEF RevokeLocked
<1>2. ASSUME NEW r \in Requests, RevokeCommits(r) \/ RevokeAllCommits(r) \/ \E a \in BOOLEAN : SecurityChangeCommits(r, a)
      PROVE  row'[s] = row[s]
  BY <1>1, <1>2 DEF RevokeCommits, RevokeAllCommits, SecurityChangeCommits
<1>3. ASSUME NEW r \in Requests, NEW u \in Sessions, NEW life \in Lives, CreateCommits(r, u, life) PROVE row'[s] = row[s]
  <2>1. Revoked(s).state = "revoked"
    BY DEF Revoked, NoRow
  <2>2. s # u
    BY <1>3, Zenon DEF CreateCommits
  <2>3. row'[s] = Revoked(s) \/ row'[s] = row[s]
    BY <1>3, <2>2, Zenon DEF CreateCommits
  <2> QED
    BY <2>1, <2>3
<1>4. ASSUME NEW r \in Requests, RotateStarts(r) \/ RotateCommits(r)
      PROVE  row'[s].state = row[s].state /\ row'[s].expires = row[s].expires
  <2>1. PICK u \in Sessions : u = call[r].sid
    BY <1>4 DEF SessionInv, Locks, RotateStarts, RotateCommits, Refreshing, NamesRow, HoldsRow
  <2>2. CASE RotateStarts(r)
    BY <1>0, <2>1, <2>2 DEF RotateStarts, RowType
  <2>3. CASE RotateCommits(r)
    BY <1>0, <2>1, <2>3 DEF RotateCommits, RowType
  <2> QED
    BY <1>4, <2>2, <2>3
<1>5. CASE UNCHANGED row
  BY <1>5
<1>6. ASSUME NEW r \in Requests,
             \/ LoginVerifies(r) \/ CreateLocks(r) \/ RefreshRefused(r) \/ RefreshRecovers(r) \/ RefreshPublishes(r)
             \/ ReplayStarts(r) \/ Dies(r) \/ (\E u \in Sessions : RevokeBars(r, u))
             \/ (\E token \in handed : RefreshStarts(r, token))
             \/ (\E op \in {"revoking_all", "changing"}, keep \in Sessions \cup {None}, marked \in SUBSET Sessions :
                   RevokeAllLocks(r, op, keep, marked))
      PROVE  UNCHANGED row
  <2>1. CASE \/ LoginVerifies(r) \/ CreateLocks(r) \/ RefreshRefused(r) \/ RefreshRecovers(r) \/ RefreshPublishes(r)
             \/ ReplayStarts(r) \/ Dies(r)
    BY <2>1, Zenon DEF LoginVerifies, CreateLocks, RefreshRefused, RefreshRecovers, RefreshPublishes, ReplayStarts, Dies
  <2>2. CASE \E u \in Sessions : RevokeBars(r, u)
    BY <2>2 DEF RevokeBars
  <2>3. CASE \E token \in handed : RefreshStarts(r, token)
    BY <2>3 DEF RefreshStarts
  <2>4. CASE \E op \in {"revoking_all", "changing"}, keep \in Sessions \cup {None}, marked \in SUBSET Sessions :
                RevokeAllLocks(r, op, keep, marked)
    BY <2>4 DEF RevokeAllLocks
  <2> QED
    BY <1>6, <2>1, <2>2, <2>3, <2>4
<1>7. CASE ClockTicks \/ UNCHANGED sessionVars
  BY <1>5, <1>7 DEF ClockTicks, sessionVars
<1> QED
  BY <1>2, <1>3, <1>4, <1>5, <1>6, <1>7 DEF SessionNext

LEMMA ClockGrows == ASSUME SessionInv, [SessionNext]_sessionVars PROVE clock' >= clock
<1>0. clock \in Nat
  BY DEF SessionInv, SessionTypeOK
<1>1. ASSUME NEW r \in Requests, NEW u \in Sessions, NEW life \in Lives, CreateCommits(r, u, life)
      PROVE  UNCHANGED clock
  BY <1>1, Zenon DEF CreateCommits
<1>2. CASE \E r \in Requests, token \in handed : RefreshStarts(r, token)
  BY <1>0, <1>2 DEF RefreshStarts
<1>3. CASE \E r \in Requests, u \in Sessions : RevokeBars(r, u)
  BY <1>0, <1>3 DEF RevokeBars
<1>4. CASE \E r \in Requests, op \in {"revoking_all", "changing"}, keep \in Sessions \cup {None},
              marked \in SUBSET Sessions : RevokeAllLocks(r, op, keep, marked)
  BY <1>0, <1>4 DEF RevokeAllLocks
<1>5. ASSUME NEW r \in Requests,
             \/ LoginVerifies(r) \/ CreateLocks(r) \/ RefreshRefused(r) \/ RotateStarts(r) \/ RotateCommits(r)
             \/ RefreshRecovers(r) \/ RefreshPublishes(r) \/ ReplayStarts(r)
             \/ RevokeCommits(r) \/ RevokeAllCommits(r) \/ Dies(r) \/ \E a \in BOOLEAN : SecurityChangeCommits(r, a)
      PROVE  UNCHANGED clock
  BY <1>5 DEF LoginVerifies, CreateLocks, RefreshRefused, RotateStarts, RotateCommits, RefreshRecovers,
     RefreshPublishes, ReplayStarts, RevokeCommits, RevokeAllCommits, Dies, SecurityChangeCommits
<1>6. CASE ClockTicks \/ UNCHANGED sessionVars
  BY <1>0, <1>6 DEF ClockTicks, sessionVars
<1> QED
  BY <1>0, <1>1, <1>2, <1>3, <1>4, <1>5, <1>6 DEF SessionNext

\* A barrier is only ever rewritten, or dropped when its time has come.
LEMMA BarriersLast ==
    ASSUME SessionInv, [SessionNext]_sessionVars, NEW s \in Sessions, Barred(s)
    PROVE  Barred(s)' \/ barrier[s] <= clock'
<1>0. clock \in Nat /\ barrier \in [Sessions -> Nat] /\ row[s] \in RowType
  BY DEF SessionInv, SessionTypeOK
<1>1. ASSUME NEW S, NEW at \in Nat, Bar(S, at) PROVE barrier'[s] # 0
  <2>1. BarrierEnd(s, at) > 0
    BY <1>0, <1>1, Periods DEF BarrierEnd, RowType
  <2> QED
    BY <2>1, <1>1 DEF Bar, Barred
<1>2. \A r \in Requests : call[r].at \in Nat
  BY DEF SessionInv, SessionTypeOK, CallType
<1>3. ASSUME NEW r \in Requests,
             \/ CreateLocks(r) \/ ReplayStarts(r) \/ (\E u \in Sessions : RevokeBars(r, u))
             \/ (\E op \in {"revoking_all", "changing"}, keep \in Sessions \cup {None}, marked \in SUBSET Sessions :
                   RevokeAllLocks(r, op, keep, marked))
      PROVE  barrier'[s] # 0
  <2>1. CASE CreateLocks(r)
    BY <1>1, <1>2, <2>1, Zenon DEF CreateLocks
  <2>2. CASE ReplayStarts(r)
    BY <1>1, <1>2, <2>2, Zenon DEF ReplayStarts
  <2>3. CASE \E u \in Sessions : RevokeBars(r, u)
    BY <1>0, <1>1, <2>3, Zenon DEF RevokeBars
  <2>4. CASE \E op \in {"revoking_all", "changing"}, keep \in Sessions \cup {None}, marked \in SUBSET Sessions :
                RevokeAllLocks(r, op, keep, marked)
    BY <1>0, <1>1, <2>4, Zenon DEF RevokeAllLocks
  <2> QED
    BY <1>3, <2>1, <2>2, <2>3, <2>4
<1>4. CASE ClockTicks
  BY <1>0, <1>4 DEF ClockTicks, Barred
<1>5. CASE UNCHANGED <<barrier, clock>>
  BY <1>0, <1>5 DEF Barred
<1>6. ASSUME NEW r \in Requests,
             \/ LoginVerifies(r) \/ RefreshRefused(r) \/ RefreshRecovers(r) \/ RefreshPublishes(r)
             \/ RotateStarts(r) \/ RotateCommits(r) \/ RevokeCommits(r) \/ RevokeAllCommits(r)
             \/ Dies(r) \/ (\E token \in handed : RefreshStarts(r, token))
             \/ (\E a \in BOOLEAN : SecurityChangeCommits(r, a))
      PROVE  UNCHANGED <<barrier, clock>>
  <2>1. CASE \/ LoginVerifies(r) \/ RefreshRefused(r) \/ RefreshRecovers(r) \/ RefreshPublishes(r)
             \/ RotateStarts(r) \/ RotateCommits(r) \/ RevokeCommits(r) \/ RevokeAllCommits(r) \/ Dies(r)
    BY <2>1, Zenon DEF LoginVerifies, RefreshRefused, RefreshRecovers, RefreshPublishes, RotateStarts,
       RotateCommits, RevokeCommits, RevokeAllCommits, Dies
  <2>2. CASE \E token \in handed : RefreshStarts(r, token)
    BY <2>2 DEF RefreshStarts
  <2>3. CASE \E a \in BOOLEAN : SecurityChangeCommits(r, a)
    BY <2>3 DEF SecurityChangeCommits
  <2> QED
    BY <1>6, <2>1, <2>2, <2>3
<1>7. ASSUME NEW r \in Requests, NEW u \in Sessions, NEW life \in Lives, CreateCommits(r, u, life)
      PROVE  UNCHANGED <<barrier, clock>>
  BY <1>7, Zenon DEF CreateCommits
<1>8. CASE UNCHANGED sessionVars
  BY <1>5, <1>8 DEF sessionVars
<1> QED
  BY <1>0, <1>3, <1>4, <1>5, <1>6, <1>7, <1>8 DEF SessionNext, Barred

\* A session that was denied once, by a barrier, a revocation or its end, is never accepted again: the
\* barrier of a transaction that was rolled back outlives the session it denies
\* (auth_session.go:195-200, 379-385).
THEOREM SessionNoReturn == SessionSpec => NoReturn
<1>1. SessionInv /\ [SessionNext]_sessionVars =>
         [\A s \in Sessions : row[s].state # "none" /\ ~Stands(s) => ~Stands(s)']_sessionVars
  <2> SUFFICES ASSUME SessionInv, [SessionNext]_sessionVars, NEW s \in Sessions,
                      row[s].state # "none", ~Stands(s), Stands(s)'
               PROVE  FALSE
    OBVIOUS
  <2>1. row'[s].state = "live" /\ row'[s].expires > clock' /\ ~Barred(s)'
    BY DEF Stands, Live
  <2>2. row[s].state = "live" /\ row'[s].expires = row[s].expires
    BY <2>1, RowsAge
  <2>3. clock \in Nat /\ clock' \in Nat /\ row[s].expires \in Nat /\ barrier[s] \in Nat
    BY SessionInvNext DEF SessionInv, SessionTypeOK, RowType
  <2>4. CASE Barred(s)
    <3>1. row[s].expires <= barrier[s]
      BY <2>2, <2>4 DEF SessionInv, Timely
    <3>2. barrier[s] <= clock'
      BY <2>1, <2>4, BarriersLast
    <3> QED
      BY <2>1, <2>2, <2>3, <3>1, <3>2
  <2>5. CASE ~Barred(s)
    <3>1. row[s].expires <= clock
      BY <2>2, <2>3, <2>5 DEF Stands, Live
    <3>2. clock' >= clock
      BY ClockGrows
    <3> QED
      BY <2>1, <2>2, <2>3, <3>1, <3>2
  <2> QED
    BY <2>4, <2>5
<1> QED
  BY <1>1, SessionInvariant, PTL DEF SessionSpec, NoReturn
=============================================================================
