----------------------------- MODULE RequestGate -----------------------------
(***************************************************************************)
(* What a request goes through before a handler sees it: the blocked       *)
(* addresses, the rate limit, a signature, a cookie or a magic link, and   *)
(* the one-time token of requests that change something.  All requests     *)
(* come from one address.  The clock counts half seconds, because a        *)
(* timestamp is compared in whole seconds and a nonce's age is not.        *)
(***************************************************************************)
EXTENDS Integers, FiniteSets, Sequences

CONSTANTS
  Requests,
  Messages,        \* signed messages: public key, timestamp and signature
  Genuine,         \* those whose signature is right
  Stamp,           \* the second a message says it was signed at
  Nonces,          \* the texts of the headers that bring a message
  Decoded,         \* the message of a text; hex has two spellings of a letter
  Known,           \* the link and the cookie there are from the start
  Key,             \* the user behind the one public key
  Acts,            \* what a handler behind the gate is asked for
  Arrivals,        \* what the requests of a behaviour bring along
  Window,          \* seconds a timestamp may be off, and a nonce is kept
  Threshold,       \* autoBlockThreshold
  ReplayFailures,  \* failures recorded for one replay
  FailWindow, BlockTime, TrackerLife, TokenLife, CookieLife,
  MaxTime,         \* bound of the clock
  Bad,             \* a header that is no signature, a cookie nobody was given
  None

Time == 0 .. MaxTime
Links == Requests \cup {Known}
Trackers == 1 .. Cardinality(Requests) + 1

\* "as" is the user of a request that was let in before the behaviour begins.
ArrivalType ==
  [sign : Nonces \cup {Bad, None}, cookie : Links \cup {Bad, None},
   key : Links \cup {Bad, None}, token : Requests \cup {None},
   want : {"token", "read", "post", "logout", "login", "register", "ungated"},
   as : Links \cup {Key, None}, act : Acts]

ASSUME GateAssumption ==
  /\ IsFiniteSet(Requests) /\ Genuine \subseteq Messages
  /\ Decoded \in [Nonces -> Messages]
  /\ Arrivals \subseteq [Requests -> ArrivalType]
  /\ Stamp \in [Messages -> Nat]
  /\ {Window, Threshold, ReplayFailures, FailWindow, BlockTime, TrackerLife,
      TokenLife, CookieLife, MaxTime} \subseteq Nat
  /\ None \notin Requests \cup Nonces \cup {Known, Key, Bad}
  /\ None \notin Nat

VARIABLES
  now,
  arrival,         \* what comes in
  pc, after,       \* where a request is, and where its failures lead
  user,            \* the user in the request's context
  clock,           \* the time its timestamp was compared with
  looked, seen,    \* when its nonce was looked up, and who had stored it by then
  markedAt,        \* when it stored its nonce
  nonceAt,         \* nonces
  cache,           \* AuthCache: when an entry expires
  blocked,         \* blocked: when the entry of the address expires
  current,         \* failureTracker
  count, first, last,  \* the trackers' fields
  tracker, todo,   \* the tracker a request counts on, and its failures left
  failed,          \* the times of the failures counted
  tokens,          \* csrfToken: [createdAt, of] or None, by the request it was made for
  spent, before,   \* who has deleted its token, and who had when a request looked
  registered,      \* the key has a row in users
  links, cookies   \* magic_links, and auth_cookies: when each expires

requestVars == <<pc, after, user>>
nonceVars == <<clock, looked, seen, markedAt, nonceAt>>
blockVars == <<blocked, current, count, first, last, tracker, todo, failed>>
tokenVars == <<tokens, spent, before>>
accountVars == <<registered, links, cookies>>
gateVars == <<now, arrival, requestVars, nonceVars, cache, blockVars, tokenVars,
              accountVars>>

Steps ==
  {"new", "unblock", "open", "auth", "stamped", "marking", "looking", "verified",
   "caching", "select", "insert", "key", "protect", "spending", "handler",
   "failing", "storing", "counting", "login", "anonymous", "done"}

TypeOK ==
  /\ now \in Time
  /\ arrival \in Arrivals
  /\ pc \in [Requests -> Steps] /\ after \in [Requests -> Steps]
  /\ user \in [Requests -> Links \cup {Key, None}]
  /\ clock \in [Requests -> Time] /\ looked \in [Requests -> Time]
  /\ seen \in [Requests -> SUBSET Requests]
  /\ markedAt \in [Requests -> Time \cup {None}]
  /\ nonceAt \in [Nonces -> Time \cup {None}]
  /\ cache \in [Nonces -> Nat]
  /\ blocked \in Nat \cup {None} /\ current \in Trackers \cup {None}
  /\ count \in [Trackers -> Nat] /\ first \in [Trackers -> Time]
  /\ last \in [Trackers -> Time \cup {None}]
  /\ tracker \in [Requests -> Trackers \cup {None}]
  /\ todo \in [Requests -> Nat] /\ failed \in Seq(Time)
  /\ tokens \in [Requests -> [at : Time, of : Links \cup {Key}] \cup {None}]
  /\ spent \subseteq Requests /\ before \in [Requests -> SUBSET Requests]
  /\ registered \in BOOLEAN /\ links \subseteq Links
  /\ cookies \in [Links -> Nat \cup {None}]

GateInit ==
  /\ now = 0
  /\ arrival \in Arrivals
  /\ pc = [r \in Requests |-> IF arrival[r].as = None THEN "new" ELSE "handler"]
  /\ user = [r \in Requests |-> arrival[r].as]
  /\ after = [r \in Requests |-> "done"]
  /\ clock = [r \in Requests |-> 0] /\ looked = [r \in Requests |-> 0]
  /\ seen = [r \in Requests |-> {}]
  /\ markedAt = [r \in Requests |-> None] /\ nonceAt = [n \in Nonces |-> None]
  /\ cache = [n \in Nonces |-> 0]
  /\ blocked = None /\ current = None
  /\ count = [t \in Trackers |-> 0] /\ first = [t \in Trackers |-> 0]
  /\ last = [t \in Trackers |-> None]
  /\ tracker = [r \in Requests |-> None] /\ todo = [r \in Requests |-> 0]
  /\ failed = <<>>
  /\ tokens = [r \in Requests |-> None]
  /\ spent = {} /\ before = [r \in Requests |-> {}]
  /\ registered = FALSE
  /\ links = {Known} \cup {l \in Links : \E r \in Requests : arrival[r].as = l}
  /\ cookies = [c \in Links |-> IF c = Known THEN CookieLife ELSE None]

Goes(r, from, to) ==
  /\ pc[r] = from
  /\ pc' = [pc EXCEPT ![r] = to]
Second(t) == t \div 2

\* createNonceID takes the headers as they are, the signature is checked on what
\* they decode to.  The texts spell the signature alone in different ways: of the
\* public key each spelling is a user of its own.
Nonce(r) == arrival[r].sign
Message(r) == Decoded[Nonce(r)]

-----------------------------------------------------------------------------
(***************************************************************************)
(* IPBlocker.                                                              *)
(***************************************************************************)

\* IsBlocked.  An entry that has expired is taken away in a step of its own,
\* with whatever the address has by then.
IsBlocked(r, from, to) ==
  /\ Goes(r, from, IF blocked = None THEN to
                   ELSE IF now > blocked THEN "unblock" ELSE "done")
  /\ after' = [after EXCEPT ![r] = IF pc'[r] = "unblock" THEN to ELSE @]
  /\ UNCHANGED <<now, arrival, user, nonceVars, cache, blockVars, tokenVars, accountVars>>

Unblock(r) ==
  /\ Goes(r, "unblock", after[r])
  /\ blocked' = None /\ current' = None
  /\ UNCHANGED <<now, arrival, after, user, nonceVars, cache, count, first, last,
                 tracker, todo, failed, tokenVars, accountVars>>

\* The request records n failures, one after the other, and goes on from there.
Fails(r, from, n, to) ==
  /\ Goes(r, from, "failing")
  /\ todo' = [todo EXCEPT ![r] = n]
  /\ after' = [after EXCEPT ![r] = to]
  /\ UNCHANGED <<now, arrival, user, cache, blocked, current, count, first, last,
                 tracker, failed, tokenVars, accountVars>>

\* A tracker nobody has a pointer to.
Fresh == CHOOSE t \in Trackers : t # current /\ \A q \in Requests : tracker[q] # t

LoadTracker(r) ==
  /\ Goes(r, "failing", IF current = None THEN "storing" ELSE "counting")
  /\ tracker' = [tracker EXCEPT ![r] = IF current = None THEN Fresh ELSE current]
  /\ IF current = None
     THEN /\ count' = [count EXCEPT ![Fresh] = 0]
          /\ first' = [first EXCEPT ![Fresh] = now]
          /\ last' = [last EXCEPT ![Fresh] = None]
     ELSE UNCHANGED <<count, first, last>>
  /\ UNCHANGED <<now, arrival, after, user, nonceVars, cache, blocked, current, todo,
                 failed, tokenVars, accountVars>>

\* Two requests may both store one; the failures counted on the other are lost.
StoreTracker(r) ==
  /\ Goes(r, "storing", "counting")
  /\ current' = tracker[r]
  /\ UNCHANGED <<now, arrival, after, user, nonceVars, cache, blocked, count, first, last,
                 tracker, todo, failed, tokenVars, accountVars>>

\* Mutant of Counted: the window is never over.
CountedForEver(t) == count[t] + 1

\* The tracker's failures with this one, which starts again after the window.
Counted(t) == IF now - first[t] > FailWindow THEN 1 ELSE count[t] + 1

\* The block of the address from now on; an older one is replaced.
Block == now + BlockTime

CountFailure(r) ==
  LET t == tracker[r] IN
  /\ Goes(r, "counting", IF todo[r] > 1 THEN "failing" ELSE after[r])
  /\ count' = [count EXCEPT ![t] = Counted(t)]
  /\ first' = [first EXCEPT ![t] = IF now - @ > FailWindow THEN now ELSE @]
  /\ last' = [last EXCEPT ![t] = now]
  /\ failed' = Append(failed, now)
  /\ blocked' = IF Counted(t) >= Threshold THEN Block ELSE blocked
  /\ todo' = [todo EXCEPT ![r] = @ - 1]
  /\ tracker' = [tracker EXCEPT ![r] = None]
  /\ UNCHANGED <<now, arrival, after, user, nonceVars, cache, current, tokenVars, accountVars>>

\* ResetFailures after a credential that was right.
ResetFailures(r) ==
  /\ Goes(r, "verified", after[r])
  /\ current' = None
  /\ UNCHANGED <<now, arrival, after, user, nonceVars, cache, blocked, count, first, last,
                 tracker, todo, failed, tokenVars, accountVars>>

\* cleanupExpired; a tracker nobody has counted on yet counts as an old one.
CleanupBlocks ==
  /\ blocked # None /\ now > blocked
  /\ blocked' = None
  /\ UNCHANGED <<now, arrival, requestVars, nonceVars, cache, current, count, first, last,
                 tracker, todo, failed, tokenVars, accountVars>>

CleanupTrackers ==
  /\ current # None
  /\ last[current] # None => now - last[current] > TrackerLife
  /\ current' = None
  /\ UNCHANGED <<now, arrival, requestVars, nonceVars, cache, blocked, count, first, last,
                 tracker, todo, failed, tokenVars, accountVars>>

-----------------------------------------------------------------------------
(***************************************************************************)
(* Authenticate: a signed request.                                         *)
(***************************************************************************)

\* AllowAuth says no, or a header is missing or ill-formed.
RefuseAuth(r) ==
  /\ Fails(r, "auth", 1, "done")
  /\ UNCHANGED nonceVars

Timely(m) == LET diff == Second(now) - Stamp[m] IN diff <= Window /\ -diff <= Window

RefuseStamp(r) ==
  /\ pc[r] = "auth" /\ Nonce(r) # Bad /\ ~Timely(Message(r))
  /\ Fails(r, "auth", 1, "done")
  /\ UNCHANGED nonceVars

AcceptStamp(r) ==
  /\ Goes(r, "auth", "stamped")
  /\ Nonce(r) # Bad /\ Timely(Message(r))
  /\ clock' = [clock EXCEPT ![r] = now]
  /\ UNCHANGED <<now, arrival, after, user, looked, seen, markedAt, nonceAt, cache,
                 blockVars, tokenVars, accountVars>>

\* CheckAndMarkNonce looks ...
FindReplay(r) ==
  /\ pc[r] = "stamped" /\ nonceAt[Nonce(r)] # None
  /\ Fails(r, "stamped", ReplayFailures, "done")
  /\ UNCHANGED nonceVars

\* Who has passed with this message, whatever the spelling.
Markers(m) == {q \in Requests : markedAt[q] # None /\ Message(q) = m}

LookNonce(r) ==
  /\ Goes(r, "stamped", "marking")
  /\ nonceAt[Nonce(r)] = None
  /\ looked' = [looked EXCEPT ![r] = now]
  /\ seen' = [seen EXCEPT ![r] = Markers(Message(r))]
  /\ UNCHANGED <<now, arrival, after, user, clock, markedAt, nonceAt, cache, blockVars,
                 tokenVars, accountVars>>

\* ... and stores in two steps.
MarkNonce(r) ==
  /\ Goes(r, "marking", "looking")
  /\ nonceAt' = [nonceAt EXCEPT ![Nonce(r)] = now]
  /\ markedAt' = [markedAt EXCEPT ![r] = now]
  /\ UNCHANGED <<now, arrival, after, user, clock, looked, seen, cache, blockVars,
                 tokenVars, accountVars>>

\* Mutant of Forgotten: nonces are dropped a second too early.
ForgottenEarly(t) == now > t + 2 * (Window - 1)

Forgotten(t) == now > t + 2 * Window

CleanupNonces ==
  /\ \E n \in Nonces :
       /\ nonceAt[n] # None /\ Forgotten(nonceAt[n])
       /\ nonceAt' = [nonceAt EXCEPT ![n] = None]
  /\ UNCHANGED <<now, arrival, requestVars, clock, looked, seen, markedAt, cache,
                 blockVars, tokenVars, accountVars>>

\* A cached message passes with no user in its context.
Cached(r) ==
  /\ Goes(r, "looking", "protect")
  /\ now < cache[Nonce(r)]
  /\ UNCHANGED <<now, arrival, after, user, nonceVars, cache, blockVars, tokenVars,
                 accountVars>>

Verify(r) ==
  /\ Goes(r, "looking", "verified")
  /\ now >= cache[Nonce(r)] /\ Message(r) \in Genuine
  /\ after' = [after EXCEPT ![r] = "caching"]
  /\ UNCHANGED <<now, arrival, user, nonceVars, cache, blockVars, tokenVars, accountVars>>

RefuseSignature(r) ==
  /\ pc[r] = "looking" /\ now >= cache[Nonce(r)] /\ Message(r) \notin Genuine
  /\ Fails(r, "looking", 1, "done")
  /\ UNCHANGED nonceVars

SetCache(r) ==
  /\ Goes(r, "caching", "select")
  /\ cache' = [cache EXCEPT ![Nonce(r)] = now + 2 * Window]
  /\ UNCHANGED <<now, arrival, after, user, nonceVars, blockVars, tokenVars, accountVars>>

\* GetOrCreate: two statements; of two first requests one meets UNIQUE.
SelectUser(r) ==
  /\ Goes(r, "select", IF registered THEN "protect" ELSE "insert")
  /\ user' = [user EXCEPT ![r] = IF registered THEN Key ELSE None]
  /\ UNCHANGED <<now, arrival, after, nonceVars, cache, blockVars, tokenVars, accountVars>>

InsertUser(r) ==
  /\ Goes(r, "insert", IF registered THEN "done" ELSE "protect")
  /\ user' = [user EXCEPT ![r] = IF registered THEN None ELSE Key]
  /\ registered' = TRUE
  /\ UNCHANGED <<now, arrival, after, nonceVars, cache, blockVars, tokenVars, links,
                 cookies>>

SignedStep(r) ==
  \/ RefuseAuth(r) \/ RefuseStamp(r) \/ AcceptStamp(r) \/ FindReplay(r) \/ LookNonce(r)
  \/ MarkNonce(r) \/ Cached(r) \/ Verify(r) \/ RefuseSignature(r) \/ SetCache(r)
  \/ SelectUser(r) \/ InsertUser(r)

-----------------------------------------------------------------------------
(***************************************************************************)
(* AuthenticateAny: a signature, else the cookie, else the key.            *)
(***************************************************************************)
Want(r) == arrival[r].want

EnterAny(r) ==
  /\ Want(r) \in {"token", "read", "post", "logout"}
  /\ IsBlocked(r, "new", "open")

\* Authenticate asks again whether the address is blocked.
EnterSigned(r) ==
  /\ Nonce(r) # None
  /\ IsBlocked(r, "open", "auth")

\* The address is over its limit of attempts.
LimitCookie(r) ==
  /\ Nonce(r) = None /\ arrival[r].cookie # None
  /\ Fails(r, "open", 1, "done")
  /\ UNCHANGED nonceVars

\* Whose link it was made from.
Owner(c) == IF c = Known THEN Known ELSE arrival[c].key

Live(c) == c \in Links /\ cookies[c] # None /\ cookies[c] > now

\* The user is now who the credential says, and the failures are forgotten.
Admits(r, from, u) ==
  /\ Goes(r, from, "verified")
  /\ user' = [user EXCEPT ![r] = u]
  /\ after' = [after EXCEPT ![r] = "protect"]
  /\ UNCHANGED <<now, arrival, nonceVars, cache, blockVars, tokenVars, accountVars>>

AcceptCookie(r) ==
  /\ Nonce(r) = None /\ Live(arrival[r].cookie)
  /\ Admits(r, "open", Owner(arrival[r].cookie))

RefuseCookie(r) ==
  /\ Nonce(r) = None /\ arrival[r].cookie # None /\ ~Live(arrival[r].cookie)
  /\ Fails(r, "open", 1, "key")
  /\ UNCHANGED nonceVars

NoCookie(r) ==
  /\ Nonce(r) = None /\ arrival[r].cookie = None
  /\ Goes(r, "open", "key")
  /\ UNCHANGED <<now, arrival, after, user, nonceVars, cache, blockVars, tokenVars,
                 accountVars>>

LimitKey(r) ==
  /\ arrival[r].key # None
  /\ Fails(r, "key", 1, "done")
  /\ UNCHANGED nonceVars

AcceptKey(r) ==
  /\ arrival[r].key \in links
  /\ Admits(r, "key", arrival[r].key)

RefuseKey(r) ==
  /\ arrival[r].key # None /\ arrival[r].key \notin links
  /\ Fails(r, "key", 1, "done")
  /\ UNCHANGED nonceVars

Unauthorized(r) ==
  /\ arrival[r].key = None
  /\ Goes(r, "key", "done")
  /\ UNCHANGED <<now, arrival, after, user, nonceVars, cache, blockVars, tokenVars,
                 accountVars>>

AnyStep(r) ==
  \/ EnterAny(r) \/ EnterSigned(r) \/ LimitCookie(r) \/ AcceptCookie(r) \/ RefuseCookie(r)
  \/ NoCookie(r) \/ LimitKey(r) \/ AcceptKey(r) \/ RefuseKey(r) \/ Unauthorized(r)

-----------------------------------------------------------------------------
(***************************************************************************)
(* Tokens: Protect before a handler that changes something, GenerateToken  *)
(* and Logout as handlers.                                                 *)
(***************************************************************************)

\* Only a change by a user of whom the context knows needs a token.
Unprotected(r) ==
  /\ Want(r) # "post" \/ user[r] = None
  /\ Goes(r, "protect", "handler")
  /\ UNCHANGED <<now, arrival, after, user, nonceVars, cache, blockVars, tokenVars,
                 accountVars>>

Token(r) == arrival[r].token
Held(r) == Token(r) # None /\ tokens[Token(r)] # None /\ tokens[Token(r)].of = user[r]
Expired(t) == now - tokens[t].at > TokenLife

RefuseToken(r) ==
  /\ Want(r) = "post" /\ user[r] # None /\ ~Held(r)
  /\ Goes(r, "protect", "done")
  /\ UNCHANGED <<now, arrival, after, user, nonceVars, cache, blockVars, tokenVars,
                 accountVars>>

ExpireToken(r) ==
  /\ Want(r) = "post" /\ user[r] # None /\ Held(r) /\ Expired(Token(r))
  /\ Goes(r, "protect", "done")
  /\ tokens' = [tokens EXCEPT ![Token(r)] = None]
  /\ UNCHANGED <<now, arrival, after, user, nonceVars, cache, blockVars, spent, before,
                 accountVars>>

\* VerifyToken looks ...
AcceptToken(r) ==
  /\ Want(r) = "post" /\ user[r] # None /\ Held(r) /\ ~Expired(Token(r))
  /\ Goes(r, "protect", "spending")
  /\ before' = [before EXCEPT ![r] = spent]
  /\ UNCHANGED <<now, arrival, after, user, nonceVars, cache, blockVars, tokens, spent,
                 accountVars>>

\* Mutant of Dropped: the token stays.
Kept(t) == tokens

Dropped(t) == [tokens EXCEPT ![t] = None]

\* ... and deletes in two steps.
SpendToken(r) ==
  /\ Goes(r, "spending", "handler")
  /\ tokens' = Dropped(Token(r))
  /\ spent' = spent \cup {r}
  /\ UNCHANGED <<now, arrival, after, user, nonceVars, cache, blockVars, before,
                 accountVars>>

\* A new token, which is named after the request it was made for.
NewToken(r) == [tokens EXCEPT ![r] = [at |-> now, of |-> user[r]]]

GenerateToken(r) ==
  /\ Want(r) = "token"
  /\ Goes(r, "handler", "done")
  /\ tokens' = IF user[r] = None THEN tokens ELSE NewToken(r)
  /\ UNCHANGED <<now, arrival, after, user, nonceVars, cache, blockVars, spent, before,
                 accountVars>>

CleanupTokens ==
  /\ \E t \in Requests :
       /\ tokens[t] # None /\ Expired(t)
       /\ tokens' = [tokens EXCEPT ![t] = None]
  /\ UNCHANGED <<now, arrival, requestVars, nonceVars, cache, blockVars, spent, before,
                 accountVars>>

InvalidateUserTokens(u) ==
  [t \in Requests |-> IF tokens[t] # None /\ tokens[t].of = u THEN None ELSE tokens[t]]
DeleteCookie(c) ==
  IF c \in Links THEN [cookies EXCEPT ![c] = None] ELSE cookies

\* A user with a key loses the tokens, one with a link the cookie he sent.
Logout(r) ==
  /\ Want(r) = "logout"
  /\ Goes(r, "handler", "done")
  /\ tokens' = IF user[r] = Key THEN InvalidateUserTokens(Key) ELSE tokens
  /\ cookies' = IF user[r] \in Links THEN DeleteCookie(arrival[r].cookie) ELSE cookies
  /\ UNCHANGED <<now, arrival, after, user, nonceVars, cache, blockVars, spent, before,
                 registered, links>>

-----------------------------------------------------------------------------
(***************************************************************************)
(* Accounts with a link: RegisterMagicLink and LoginWithMagicLink.         *)
(***************************************************************************)

\* The proof of work or its timestamp is wrong.
RefuseRegistration(r) ==
  /\ Want(r) = "register"
  /\ Goes(r, "new", "done")
  /\ UNCHANGED <<now, arrival, after, user, nonceVars, cache, blockVars, tokenVars,
                 accountVars>>

\* CreateAnonymous; the user stays when there will be no link.
CreateAnonymous(r) ==
  /\ Want(r) = "register"
  /\ Goes(r, "new", "anonymous")
  /\ UNCHANGED <<now, arrival, after, user, nonceVars, cache, blockVars, tokenVars,
                 accountVars>>

GenerateMagicLink(r) ==
  /\ Goes(r, "anonymous", "done")
  /\ links' = links \cup {r} \/ links' = links
  /\ UNCHANGED <<now, arrival, after, user, nonceVars, cache, blockVars, tokenVars,
                 registered, cookies>>

RegisterMagicLink(r) == RefuseRegistration(r) \/ CreateAnonymous(r) \/ GenerateMagicLink(r)

ValidateMagicLink(r) ==
  /\ Want(r) = "login"
  /\ Goes(r, "new", IF arrival[r].key \in links THEN "login" ELSE "done")
  /\ UNCHANGED <<now, arrival, after, user, nonceVars, cache, blockVars, tokenVars,
                 accountVars>>

CreateCookie(r) ==
  /\ Goes(r, "login", "done")
  /\ cookies' = [cookies EXCEPT ![r] = now + CookieLife]
  /\ UNCHANGED <<now, arrival, after, user, nonceVars, cache, blockVars, tokenVars,
                 registered, links>>

LoginWithMagicLink(r) == ValidateMagicLink(r) \/ CreateCookie(r)

\* A vote another node sends, and the command line, need no user.
EnterUngated(r) ==
  /\ Want(r) = "ungated"
  /\ Goes(r, "new", "handler")
  /\ UNCHANGED <<now, arrival, after, user, nonceVars, cache, blockVars, tokenVars,
                 accountVars>>

-----------------------------------------------------------------------------
Tick ==
  /\ now < MaxTime
  /\ now' = now + 1
  /\ UNCHANGED <<arrival, requestVars, nonceVars, cache, blockVars, tokenVars, accountVars>>

BlockStep(r) ==
  Unblock(r) \/ LoadTracker(r) \/ StoreTracker(r) \/ CountFailure(r) \/ ResetFailures(r)
TokenStep(r) ==
  \/ Unprotected(r) \/ RefuseToken(r) \/ ExpireToken(r) \/ AcceptToken(r) \/ SpendToken(r)
  \/ GenerateToken(r) \/ Logout(r)
AccountStep(r) == RegisterMagicLink(r) \/ LoginWithMagicLink(r) \/ EnterUngated(r)

GateNext ==
  \/ \E r \in Requests : SignedStep(r) \/ AnyStep(r) \/ BlockStep(r) \/ TokenStep(r)
                         \/ AccountStep(r)
  \/ CleanupBlocks \/ CleanupTrackers \/ CleanupNonces \/ CleanupTokens \/ Tick

GateSpec == GateInit /\ [][GateNext]_gateVars

-----------------------------------------------------------------------------
(***************************************************************************)
(* The hazard of looking before storing is that a message is accepted      *)
(* twice, and of a nonce kept for too short a time that it is accepted     *)
(* again.  A message that q passed with before r looked lets r pass in     *)
(* another spelling, whose nonce is another one (replay.go:77-82).  In the *)
(* same spelling it does so only if the nonce had outlived its window, and *)
(* then either the message was signed in the future or r's timestamp had   *)
(* been compared before that (middleware/auth.go:128 and replay.go:47,     *)
(* 106).                                                                   *)
(***************************************************************************)
NonceOnce ==
  \A r \in Requests : markedAt[r] # None =>
    \A q \in seen[r] :
      \/ Nonce(q) # Nonce(r)
      \/ /\ looked[r] > markedAt[q] + 2 * Window
         /\ \/ Stamp[Message(r)] >= Second(markedAt[q])
            \/ clock[r] <= markedAt[q] + 2 * Window

(***************************************************************************)
(* An address is blocked for what it did within one window: as many        *)
(* failures as the threshold in the FailWindow before the block, however   *)
(* trackers are made, lost and started again (ipblock.go:133-178).         *)
(***************************************************************************)
Failures(from, to) == {i \in DOMAIN failed : failed[i] \in from .. to}
BlockIsEarned ==
  blocked # None =>
    LET at == blocked - BlockTime
    IN Cardinality(Failures(at - FailWindow, at)) >= Threshold

(***************************************************************************)
(* A token is good for one request: two requests pass with the same one    *)
(* only if the second looked it up before the first deleted it             *)
(* (security/csrf.go:58-81).                                               *)
(***************************************************************************)
TokenOnce ==
  \A q, r \in spent : Token(q) = Token(r) /\ q \in before[r] => q = r
=============================================================================
