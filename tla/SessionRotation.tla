---------------------------- MODULE SessionRotation ----------------------------
(***************************************************************************)
(* One user's sessions: session.service.ts of auth, and its callers in     *)
(* auth.service.ts.  A refresh key holds a live record or, for             *)
(* REFRESH_GRACE_SECONDS after its token was rotated, a grace record that  *)
(* names the successor; an access key names a refresh hash.  Calls of      *)
(* several clients run at once and each Redis command, script or Mongo     *)
(* write is a step: refreshes and their replays, log-out, revocation of a  *)
(* listed session, of every session and of every other session.  A Session *)
(* row's write may fail, a process may die, keys expire.                   *)
(*                                                                         *)
(* A token stands for its hash.  A SCAN with its MGET is one step, and so  *)
(* is collectFamily's walk.                                                *)
(***************************************************************************)
EXTENDS Naturals, FiniteSets

CONSTANTS
    Client,          \* the calls that run at the same time
    MaxTokens,       \* bound: refresh tokens ever issued
    MaxAccess,       \* bound: access tokens ever written
    MaxSignIns,      \* bound: sign-ins
    MaxRemovals,     \* bound: log-outs and revocations
    MaxMishaps,      \* bound: row writes that fail, calls that die, live records
                     \* and access keys that expire, together
    PromptRemovals   \* no grace record expires while a removal is running

ASSUME BoundAssumption ==
    {MaxTokens, MaxAccess, MaxSignIns, MaxRemovals, MaxMishaps} \subseteq Nat
ASSUME PromptAssumption == PromptRemovals \in BOOLEAN

Token == 1..MaxTokens
Access == 1..MaxAccess

VARIABLES
    refresh,   \* session:refresh:<uid>:<hash>
    access,    \* session:<uid>:<hash>: the refresh token it names, or 0
    rows,      \* the active Session rows
    call,      \* the calls: their locals
    root,      \* by token: the token its family was signed in with, or 0
    succ,      \* by token: the one it was rotated into, or 0
    given,     \* by token: the successors its presenters were answered
    minted,    \* how many access tokens were written
    revoked,   \* the families a finished removal owed the end of
    cut,       \* the families a sweep took a record from and left alive
    signIns, removals, mishaps

limits == <<signIns, removals, mishaps>>
vars == <<refresh, access, rows, call, root, succ, given, minted, revoked, cut, limits>>

\* A live record's access is the key written with it, from the token it was
\* rotated from.  A grace record keeps both (from is its p; access is the key
\* whose life was cut to the record's) and next is its h.
Record == [kind : {"none", "live", "grace"}, access : 0..MaxAccess,
           from : 0..MaxTokens, next : 0..MaxTokens]

NoRecord == [kind |-> "none", access |-> 0, from |-> 0, next |-> 0]

Live(a, from) == [kind |-> "live", access |-> a, from |-> from, next |-> 0]

\* Mutant: the old record can still be refreshed with.
StillLive(old, t) == [old EXCEPT !.next = t]

Grace(old, t) == [old EXCEPT !.kind = "grace", !.next = t]

Removal == {"logout", "byId", "all", "others"}

Call == [pc : {"idle", "rotate", "successor", "replay", "row", "find", "validate",
               "list", "collect", "walk", "leftover", "sweep", "recollect",
               "scan", "del", "rows"},
         op : {"none", "signin", "refresh"} \cup Removal,
         tok : 0..MaxTokens,      \* presented; for others, the one the kept key names
         rec : Record,            \* what the presented token's key held
         after : Record,          \* what the successor's key held
         new : 0..MaxTokens,      \* just issued
         acc : 0..MaxAccess,      \* the access key just written, or the caller's
         starts : SUBSET Token,   \* where the walk starts; then what it visited
         keep : SUBSET Token,     \* the kept family
         keys : SUBSET Access,    \* the access keys to delete
         owed : SUBSET Token]     \* the families this removal must end

Idle == [pc |-> "idle", op |-> "none", tok |-> 0, rec |-> NoRecord, after |-> NoRecord,
         new |-> 0, acc |-> 0, starts |-> {}, keep |-> {}, keys |-> {}, owed |-> {}]

Row == [access : Access, token : Token]

Held == {t \in Token : refresh[t].kind # "none"}

Families(T) == {root[t] : t \in T}

Init ==
    /\ refresh = [t \in Token |-> NoRecord]
    /\ access = [a \in Access |-> 0]
    /\ rows = {}
    /\ call = [c \in Client |-> Idle]
    /\ root = [t \in Token |-> 0]
    /\ succ = [t \in Token |-> 0]
    /\ given = [t \in Token |-> {}]
    /\ minted = 0
    /\ revoked = [refresh |-> {}, access |-> {}] /\ cut = {}
    /\ signIns = 0 /\ removals = 0 /\ mishaps = 0

Mishap ==
    /\ mishaps < MaxMishaps /\ mishaps' = mishaps + 1
    /\ UNCHANGED <<signIns, removals>>

Become(c, locals) == call' = [call EXCEPT ![c] = locals]

\* A token nobody issued: every attempt draws its own nonce.
Fresh(t) == root[t] = 0 /\ \A u \in 1..(t - 1) : root[u] # 0

\* The client holds t: it was answered with it.
Known(t) == root[t] = t \/ \E u \in Token : t \in given[u]

-----------------------------------------------------------------------------
(* Sign-in, refresh and replay. *)

\* createSession: both keys in one pipeline; the row comes after.
SignIn(c) == \E t \in Token :
    /\ call[c].pc = "idle" /\ Fresh(t) /\ minted < MaxAccess
    /\ signIns < MaxSignIns /\ signIns' = signIns + 1
    /\ minted' = minted + 1
    /\ refresh' = [refresh EXCEPT ![t] = Live(minted + 1, 0)]
    /\ access' = [access EXCEPT ![minted + 1] = t]
    /\ root' = [root EXCEPT ![t] = t]
    /\ Become(c, [Idle EXCEPT !.pc = "row", !.op = "signin",
                              !.new = t, !.acc = minted + 1])
    /\ UNCHANGED <<rows, succ, given, revoked, cut, removals, mishaps>>

\* refreshTokens or acceptPrivacy, up to rotateRefreshSession's read.
Present(c) == \E t \in Held :
    /\ call[c].pc = "idle" /\ Known(t)
    /\ Become(c, [Idle EXCEPT !.pc = IF refresh[t].kind = "grace" THEN "successor" ELSE "rotate",
                              !.op = "refresh", !.tok = t, !.rec = refresh[t]])
    /\ UNCHANGED <<refresh, access, rows, root, succ, given, minted, revoked, cut, limits>>

\* Mutant: the script does not compare the record it read.
AnyRecord(c) == call[c].tok \in Held

Unrotated(c) == refresh[call[c].tok] = call[c].rec

\* ROTATE_LUA, the record still as read.
Rotate(c) == \E t \in Token :
    /\ call[c].pc = "rotate" /\ Unrotated(c)
    /\ Fresh(t) /\ minted < MaxAccess
    /\ minted' = minted + 1
    /\ refresh' = [refresh EXCEPT ![call[c].tok] = Grace(call[c].rec, t),
                                  ![t] = Live(minted + 1, call[c].tok)]
    /\ access' = [access EXCEPT ![minted + 1] = t]
    /\ root' = [root EXCEPT ![t] = root[call[c].tok]]
    /\ succ' = [succ EXCEPT ![call[c].tok] = t]
    /\ Become(c, [call[c] EXCEPT !.pc = "row", !.new = t, !.acc = minted + 1])
    /\ UNCHANGED <<rows, given, revoked, cut, limits>>

\* ROTATE_LUA, the record rotated or gone meanwhile: replay, or nothing issued.
LoseRotation(c) ==
    LET now == refresh[call[c].tok] IN
    /\ call[c].pc = "rotate" /\ ~Unrotated(c)
    /\ Become(c, IF now.kind = "grace"
                 THEN [call[c] EXCEPT !.pc = "successor", !.rec = now] ELSE Idle)
    /\ UNCHANGED <<refresh, access, rows, root, succ, given, minted, revoked, cut, limits>>

\* replayRotation reads the successor's record.
ReadSuccessor(c) ==
    LET next == refresh[call[c].rec.next] IN
    /\ call[c].pc = "successor"
    /\ Become(c, IF next.kind = "live"
                 THEN [call[c] EXCEPT !.pc = "replay", !.after = next] ELSE Idle)
    /\ UNCHANGED <<refresh, access, rows, root, succ, given, minted, revoked, cut, limits>>

Unmoved(c) == Unrotated(c) /\ refresh[call[c].rec.next] = call[c].after

Tell(t, next) == given' = [given EXCEPT ![t] = @ \cup {next}]

\* REPLAY_LUA: an access key of its own, the same refresh token answered.
Replay(c) ==
    /\ call[c].pc = "replay" /\ Unmoved(c) /\ minted < MaxAccess
    /\ minted' = minted + 1
    /\ access' = [access EXCEPT ![minted + 1] = call[c].rec.next]
    /\ Tell(call[c].tok, call[c].rec.next)
    /\ Become(c, Idle)
    /\ UNCHANGED <<refresh, rows, root, succ, revoked, cut, limits>>

RefuseReplay(c) ==
    /\ call[c].pc = "replay" /\ ~Unmoved(c)
    /\ Become(c, Idle)
    /\ UNCHANGED <<refresh, access, rows, root, succ, given, minted, revoked, cut, limits>>

OldRows(c) == {r \in rows : call[c].op = "refresh" /\ r.access = call[c].rec.access}

\* The old row goes, the new one is written, the caller gets its tokens.
WriteRow(c) ==
    /\ call[c].pc = "row"
    /\ rows' = (rows \ OldRows(c)) \cup {[access |-> call[c].acc, token |-> call[c].new]}
    /\ IF call[c].op = "refresh" THEN Tell(call[c].tok, call[c].new) ELSE UNCHANGED given
    /\ Become(c, Idle)
    /\ UNCHANGED <<refresh, access, root, succ, minted, revoked, cut, limits>>

\* Mongo fails: a rotation is undone by revoking the family; a sign-in throws.
RowFails(c) ==
    /\ call[c].pc = "row"
    /\ Mishap
    /\ rows' \in {rows, rows \ OldRows(c)}
    /\ Become(c, IF call[c].op = "refresh"
                 THEN [Idle EXCEPT !.pc = "find", !.op = "logout", !.acc = call[c].acc] ELSE Idle)
    /\ UNCHANGED <<refresh, access, root, succ, given, minted, revoked, cut>>

-----------------------------------------------------------------------------
(* Removal. *)

\* The records a walk follows from t's: successor and predecessors.
\* Mutant: the walk does not follow a grace record to its successor.
OnlyBack(t) == {refresh[t].from} \ {0}

Links(t) == {refresh[t].next, refresh[t].from} \ {0}

\* What a walk has visited when nothing is left in its queue.
Closed(S, starts, skip) ==
    /\ starts \ skip \subseteq S
    /\ \A t \in S : Links(t) \ skip \subseteq S

Reach(starts, skip) == {t \in Token : \A S \in SUBSET Token : Closed(S, starts, skip) => t \in S}

\* A removal begins; the caller's access key is live where it needs one.
Begin(c, locals) ==
    /\ call[c].pc = "idle"
    /\ removals < MaxRemovals /\ removals' = removals + 1
    /\ Become(c, locals)
    /\ UNCHANGED <<refresh, access, root, succ, given, minted, revoked, cut, signIns, mishaps>>

Caller == {a \in Access : access[a] # 0}

Logout(c) == \E a \in Caller :
    /\ Begin(c, [Idle EXCEPT !.pc = "find", !.op = "logout", !.acc = a])
    /\ UNCHANGED rows

\* deleteUserSessionById: the row is inactive from here on.
RevokeListed(c) == \E r \in rows :
    /\ Begin(c, [Idle EXCEPT !.pc = "find", !.op = "byId", !.acc = r.access,
                             !.tok = r.token, !.starts = {r.token}])
    /\ rows' = rows \ {r}

\* deleteAllUserSessions, up to its first SCAN.
RevokeAll(c) ==
    /\ Begin(c, [Idle EXCEPT !.pc = "walk", !.op = "all", !.starts = Held,
                             !.owed = Families(Held)])
    /\ UNCHANGED rows

RevokeOthers(c) == \E a \in Caller :
    /\ Begin(c, [Idle EXCEPT !.pc = "validate", !.op = "others", !.acc = a])
    /\ UNCHANGED rows

Local(c, pc, locals) ==
    /\ call[c].pc = pc
    /\ Become(c, locals)
    /\ UNCHANGED <<refresh, access, rows, root, succ, given, minted, revoked, cut, limits>>

\* deleteSession reads which refresh token its access key names.  It owes the
\* end of a family whose record it will start from.
Find(c) ==
    LET starts == call[c].starts \cup ({access[call[c].acc]} \ {0}) IN
    Local(c, "find", [call[c] EXCEPT !.pc = "walk", !.starts = starts,
                                     !.owed = Families(starts \cap Held)])

\* validateSession names the kept family.
Validate(c) == Local(c, "validate", [call[c] EXCEPT !.pc = "list", !.tok = access[call[c].acc]])

List(c) == Local(c, "list", [call[c] EXCEPT !.pc = "collect", !.starts = Held])

\* Mutant: only the token the caller's key names is kept.
OnlyNamed(c) == {call[c].tok} \ {0}

Collected(c) == Reach({call[c].tok} \ {0}, {})

Collect(c) ==
    LET keep == Collected(c) IN
    Local(c, "collect", [call[c] EXCEPT !.pc = "walk", !.keep = keep,
                             !.owed = Families(call[c].starts \ keep) \ Families(keep)])

\* REVOKE_FAMILIES_LUA
Walk(c) ==
    LET walked == Reach(call[c].starts, call[c].keep)
        then == CASE call[c].op = "all" -> "leftover"
                  [] call[c].op = "others" -> "recollect"
                  [] OTHER -> "scan"
    IN /\ call[c].pc = "walk"
       /\ refresh' = [t \in Token |-> IF t \in walked THEN NoRecord ELSE refresh[t]]
       /\ Become(c, [call[c] EXCEPT !.pc = then, !.starts = walked])
       /\ UNCHANGED <<access, rows, root, succ, given, minted, revoked, cut, limits>>

\* The records found by a second SCAN go one by one: a family that rotates in
\* between loses its old record and keeps its new one.
Leftover(c) == Local(c, "leftover", [call[c] EXCEPT !.pc = "sweep", !.starts = Held])

Sweep(c) ==
    /\ call[c].pc = "sweep"
    /\ refresh' = [t \in Token |-> IF t \in call[c].starts THEN NoRecord ELSE refresh[t]]
    /\ cut' = cut \cup (Families(call[c].starts \cap Held)
                         \cap Families({t \in Token \ call[c].starts : refresh[t].kind = "live"}))
    /\ Become(c, [call[c] EXCEPT !.pc = "scan"])
    /\ UNCHANGED <<access, rows, root, succ, given, minted, revoked, limits>>

\* The kept family may have rotated since it was read.
Recollect(c) ==
    Local(c, "recollect", [call[c] EXCEPT !.pc = "scan", !.keep = @ \cup Collected(c)])

Doomed(c) ==
    CASE call[c].op = "all" -> Caller
      [] call[c].op = "others" -> {a \in Caller \ {call[c].acc} : access[a] \notin call[c].keep}
      [] OTHER -> {a \in Caller : access[a] \in call[c].starts} \cup {call[c].acc}

Scan(c) == Local(c, "scan", [call[c] EXCEPT !.pc = "del", !.keys = Doomed(c)])

Del(c) ==
    /\ call[c].pc = "del"
    /\ access' = [a \in Access |-> IF a \in call[c].keys THEN 0 ELSE access[a]]
    /\ Become(c, [call[c] EXCEPT !.pc = "rows"])
    /\ UNCHANGED <<refresh, rows, root, succ, given, minted, revoked, cut, limits>>

DeletedRow(c, r) ==
    CASE call[c].op = "all" -> TRUE
      [] call[c].op = "others" -> r.access # call[c].acc /\ r.token \notin call[c].keep
      [] OTHER -> r.access = call[c].acc \/ r.token \in call[c].starts

\* The rows go; byId then deletes the listed token's key once more.
DeleteRows(c) ==
    /\ call[c].pc = "rows"
    /\ rows' = {r \in rows : ~DeletedRow(c, r)}
    /\ refresh' = [t \in Token |-> IF call[c].op = "byId" /\ t = call[c].tok
                                   THEN NoRecord ELSE refresh[t]]
    /\ revoked' = [refresh |-> revoked.refresh \cup call[c].owed,
                   access |-> revoked.access \cup
                              IF call[c].op \in {"all", "others"} THEN call[c].owed ELSE {}]
    /\ Become(c, Idle)
    /\ UNCHANGED <<access, root, succ, given, minted, cut, limits>>

-----------------------------------------------------------------------------
(* Time and failure. *)

\* REFRESH_GRACE_SECONDS are over, for the oldest grace record first; the
\* access key of the rotated token goes with it.
GraceExpires(t) ==
    /\ refresh[t].kind = "grace"
    /\ \A u \in Token : refresh[u].kind = "grace" => refresh[u].next # t
    /\ PromptRemovals => \A c \in Client : call[c].op \notin Removal
    /\ refresh' = [refresh EXCEPT ![t] = NoRecord]
    /\ access' = [access EXCEPT ![refresh[t].access] = 0]
    /\ UNCHANGED <<rows, call, root, succ, given, minted, revoked, cut, limits>>

\* SESSION_SLIDING_TTL_SECONDS or the absolute ceiling
LiveExpires(t) ==
    /\ refresh[t].kind = "live" /\ Mishap
    /\ refresh' = [refresh EXCEPT ![t] = NoRecord]
    /\ UNCHANGED <<access, rows, call, root, succ, given, minted, revoked, cut>>

\* SESSION_TTL.ACCESS
AccessExpires(a) ==
    /\ access[a] # 0 /\ Mishap
    /\ access' = [access EXCEPT ![a] = 0]
    /\ UNCHANGED <<refresh, rows, call, root, succ, given, minted, revoked, cut>>

\* The process of a call dies: no answer, no further step.
Crash(c) ==
    /\ call[c].pc # "idle"
    /\ Mishap
    /\ Become(c, Idle)
    /\ UNCHANGED <<refresh, access, rows, root, succ, given, minted, revoked, cut>>

Refreshing(c) ==
    \/ Rotate(c) \/ LoseRotation(c)
    \/ ReadSuccessor(c) \/ Replay(c) \/ RefuseReplay(c)
    \/ WriteRow(c) \/ RowFails(c)

Removing(c) ==
    \/ Find(c) \/ Validate(c) \/ List(c) \/ Collect(c) \/ Walk(c)
    \/ Leftover(c) \/ Sweep(c) \/ Recollect(c)
    \/ Scan(c) \/ Del(c) \/ DeleteRows(c)

Arriving(c) ==
    \/ SignIn(c) \/ Present(c)
    \/ Logout(c) \/ RevokeListed(c) \/ RevokeAll(c) \/ RevokeOthers(c)

Next ==
    \/ \E c \in Client : Arriving(c) \/ Refreshing(c) \/ Removing(c) \/ Crash(c)
    \/ \E t \in Token : GraceExpires(t) \/ LiveExpires(t)
    \/ \E a \in Access : AccessExpires(a)

Spec == Init /\ [][Next]_vars

-----------------------------------------------------------------------------
(* Properties. *)

\* Every record, key, row and local has its type.
TypeOK ==
    /\ refresh \in [Token -> Record]
    /\ access \in [Access -> 0..MaxTokens]
    /\ rows \subseteq Row
    /\ call \in [Client -> Call]
    /\ root \in [Token -> 0..MaxTokens]
    /\ succ \in [Token -> 0..MaxTokens]
    /\ given \in [Token -> SUBSET Token]
    /\ minted \in 0..MaxAccess
    /\ revoked \in [refresh : SUBSET Token, access : SUBSET Token]
    /\ cut \subseteq Token
    /\ signIns \in 0..MaxSignIns /\ removals \in 0..MaxRemovals
    /\ mishaps \in 0..MaxMishaps

\* A family never has two tokens it can refresh with, however many tabs rotate,
\* replay and retry at once.
OneLivePerFamily ==
    \A t, u \in Token :
        refresh[t].kind = "live" /\ refresh[u].kind = "live" /\ root[t] = root[u] => t = u

\* A presented token is answered with one successor only: a retry after a lost
\* answer gets the same one.
SameAnswer == \A t \in Token : \A u, v \in given[t] : u = v

\* What is true of the families in every state, together: one live token each,
\* and one successor for each token presented.
FamiliesOK == TypeOK /\ OneLivePerFamily /\ SameAnswer

\* Once a removal that owed the end of a family has finished, no token of the
\* family can be refreshed with, whatever was rotating or being replayed when it
\* ran; after the removal of all or of the others, no access key is left either.
\* A family that signed in while a removal of all ran, and rotated between its
\* second SCAN and the DEL, is cut in two: another removal walking it at that
\* moment from its old token does not reach the new one.  A removal owes the end
\* of no family that it has no record of to start from: a log-out by a replay's
\* access key whose record has gone leaves the successor alive.
RevokedStaysRevoked ==
    /\ \A t \in Token : refresh[t].kind = "live" => root[t] \notin revoked.refresh \ cut
    /\ \A a \in Caller : root[access[a]] \notin revoked.access \ cut

\* The family of client c while it signs out the other sessions: the tokens that
\* still have a record.  A replay's access key lives on when the record it names
\* has gone; nothing can be collected from it then, and only that name is kept
\* (collectFamily), though the caller's later tokens are still there.
Orphan(c) == call[c].keep = {call[c].tok} /\ call[c].tok \notin Held

Kept(c) == {t \in Held : /\ call[c].op = "others" /\ call[c].tok # 0 /\ ~Orphan(c)
                         /\ root[t] = root[call[c].tok]}

\* Signing out the other sessions (password change) deletes no refresh or grace
\* record of the caller's own family, though the family rotates, replays and is
\* rotated again while the call runs, and whatever of it expires; unless the
\* record that the caller's key names has gone and it collected nothing else.
KeepsTheCaller ==
    [][\A c \in Client : call'[c] # call[c] =>
          \A t \in Kept(c) : refresh'[t] = refresh[t]]_vars

\* The one token a family can refresh with.
Current(f) ==
    LET live == {t \in Token : refresh[t].kind = "live" /\ root[t] = f}
    IN IF live = {} THEN 0 ELSE CHOOSE t \in live : TRUE

\* The promise of SessionFamilies, kept with records and scripts.
Promise == INSTANCE SessionFamilies WITH
    current <- [f \in Token |-> Current(f)],
    used <- {t \in Token : root[t] # 0},
    told <- given

\* A token is exchanged at most once, for one successor that every presenter is
\* answered with, and a family that ended never comes back.
KeepsThePromise == Promise!Spec
================================================================================
