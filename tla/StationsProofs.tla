---------------------------- MODULE StationsProofs ----------------------------
(***************************************************************************)
(* Theorems about Stations, for any number of requests and messages and    *)
(* any windows: a nonce is not accepted twice, a token is good for one   *)
(* request, a block is earned, and what updates and votes that overlap can *)
(* do to each other.                                                       *)
(***************************************************************************)
EXTENDS Stations, FiniteSetTheorems, TLAPS

(***************************************************************************)
(* The inductive invariant.                                                *)
(***************************************************************************)
Special == {"stamped", "marking", "spending"}
Early == {"new", "unblock", "open", "auth", "stamped", "marking"}
Returning == {"failing", "storing", "counting", "verified"}

GateTypes ==
  /\ now \in Nat /\ arrival \in Arrivals
  /\ pc \in [Requests -> Steps] /\ after \in [Requests -> Steps]
  /\ clock \in [Requests -> Nat] /\ looked \in [Requests -> Nat]
  /\ seen \in [Requests -> SUBSET Requests]
  /\ markedAt \in [Requests -> Nat \cup {None}]
  /\ nonceAt \in [Nonces -> Nat \cup {None}]
  /\ DOMAIN tokens = Requests
  /\ spent \subseteq Requests /\ before \in [Requests -> SUBSET Requests]

\* A request that has stored its nonce does not come back to where it may.
Past(r) == pc[r] \notin Early

Local(r) ==
  /\ after[r] \notin Special
  /\ pc[r] \in Returning => after[r] \notin Early
  /\ pc[r] = "auth" \/ (pc[r] = "unblock" /\ after[r] = "auth") => Nonce(r) # None
  /\ markedAt[r] # None => Past(r)

\* The message is one that was timely when its timestamp was compared.
WasTimely(r) ==
  /\ Nonce(r) \in Nonces
  /\ Second(clock[r]) - Stamp[Message(r)] <= Window
Stamped(r) == pc[r] \in {"stamped", "marking"} \/ markedAt[r] # None => WasTimely(r)

\* A nonce is there as long as a message could be old enough to be refused.
Remembered(q) ==
  markedAt[q] # None =>
    /\ markedAt[q] <= now
    /\ \/ nonceAt[Nonce(q)] # None /\ nonceAt[Nonce(q)] >= markedAt[q]
       \/ now > markedAt[q] + 2 * Window

\* Who had stored the nonce when r did not find it.
Unseen(r) ==
  pc[r] = "marking" \/ markedAt[r] # None =>
    \A q \in seen[r] :
      markedAt[q] # None /\ (Nonce(q) = Nonce(r) => looked[r] > markedAt[q] + 2 * Window)

NonceOf(r) == Local(r) /\ Stamped(r) /\ Remembered(r) /\ Unseen(r)

\* A token exists once its request is done, and not after it was spent.
Spender(r) == pc[r] = "spending" \/ r \in spent
TokenOf(r) ==
  /\ tokens[r] # None => pc[r] = "done"
  /\ Spender(r) =>
       /\ Token(r) \in Requests /\ pc[Token(r)] = "done"
       /\ \A q \in before[r] : q \in spent /\ Token(q) # Token(r)
  /\ r \in spent => tokens[Token(r)] = None

GateInv == GateTypes /\ \A r \in Requests : NonceOf(r) /\ TokenOf(r)

(***************************************************************************)
(* Steps that touch neither nonces nor tokens.                             *)
(***************************************************************************)
Passes(r) ==
  /\ UNCHANGED <<now, arrival, nonceVars, tokenVars>>
  /\ pc[r] # "done"
  /\ pc' \in [Requests -> Steps] /\ after' \in [Requests -> Steps]
  /\ \A q \in Requests \ {r} : pc'[q] = pc[q] /\ after'[q] = after[q]
  /\ pc'[r] \notin Special
  /\ Local(r)'

LEMMA Constants ==
  /\ Window \in Nat /\ Stamp \in [Messages -> Nat] /\ Decoded \in [Nonces -> Messages]
  /\ Arrivals \subseteq [Requests -> ArrivalType]
  /\ None \notin Nat /\ None \notin Requests /\ None \notin Nonces
  BY GateAssumption

LEMMA QuietSigned ==
  ASSUME GateInv, NEW r \in Requests,
         \/ RefuseAuth(r) \/ RefuseStamp(r) \/ FindReplay(r) \/ Cached(r)
         \/ Verify(r) \/ RefuseSignature(r) \/ SetCache(r) \/ SelectUser(r)
         \/ InsertUser(r)
  PROVE Passes(r)
<1>0. /\ GateTypes /\ Local(r)
  BY DEF GateInv, NonceOf
<1> USE DEF Goes, Steps, Special, Early, Returning, Local, Past, Passes, GateTypes, Nonce,
            nonceVars, tokenVars
<1>1. CASE RefuseAuth(r)
  BY <1>0, <1>1 DEF RefuseAuth, Fails
<1>2. CASE RefuseStamp(r)
  BY <1>0, <1>2 DEF RefuseStamp, Fails
<1>3. CASE FindReplay(r)
  BY <1>0, <1>3 DEF FindReplay, Fails
<1>4. CASE Cached(r)
  BY <1>0, <1>4 DEF Cached
<1>5. CASE Verify(r)
  BY <1>0, <1>5 DEF Verify
<1>6. CASE RefuseSignature(r)
  BY <1>0, <1>6 DEF RefuseSignature, Fails
<1>7. CASE SetCache(r)
  BY <1>0, <1>7 DEF SetCache
<1>8. CASE SelectUser(r)
  BY <1>0, <1>8 DEF SelectUser
<1>9. CASE InsertUser(r)
  BY <1>0, <1>9 DEF InsertUser
<1> QED
  BY <1>1, <1>2, <1>3, <1>4, <1>5, <1>6, <1>7, <1>8, <1>9

LEMMA QuietAny ==
  ASSUME GateInv, NEW r \in Requests,
         \/ EnterAny(r) \/ EnterSigned(r) \/ LimitCookie(r) \/ AcceptCookie(r)
         \/ RefuseCookie(r) \/ NoCookie(r) \/ LimitKey(r) \/ AcceptKey(r)
         \/ RefuseKey(r) \/ Unauthorized(r)
  PROVE Passes(r)
<1>0. /\ GateTypes /\ Local(r)
  BY DEF GateInv, NonceOf
<1> USE DEF Goes, Steps, Special, Early, Returning, Local, Past, Passes, GateTypes, Nonce,
            nonceVars, tokenVars
<1>1. CASE EnterAny(r)
  BY <1>0, <1>1 DEF EnterAny, IsBlocked, Want
<1>2. CASE EnterSigned(r)
  BY <1>0, <1>2 DEF EnterSigned, IsBlocked
<1>3. CASE LimitCookie(r)
  BY <1>0, <1>3 DEF LimitCookie, Fails
<1>4. CASE AcceptCookie(r)
  BY <1>0, <1>4 DEF AcceptCookie, Admits
<1>5. CASE RefuseCookie(r)
  BY <1>0, <1>5 DEF RefuseCookie, Fails
<1>6. CASE NoCookie(r)
  BY <1>0, <1>6 DEF NoCookie
<1>7. CASE LimitKey(r)
  BY <1>0, <1>7 DEF LimitKey, Fails
<1>8. CASE AcceptKey(r)
  BY <1>0, <1>8 DEF AcceptKey, Admits
<1>9. CASE RefuseKey(r)
  BY <1>0, <1>9 DEF RefuseKey, Fails
<1>10. CASE Unauthorized(r)
  BY <1>0, <1>10 DEF Unauthorized
<1> QED
  BY <1>1, <1>2, <1>3, <1>4, <1>5, <1>6, <1>7, <1>8, <1>9, <1>10

LEMMA QuietBlock ==
  ASSUME GateInv, NEW r \in Requests,
         \/ Unblock(r) \/ LoadTracker(r) \/ StoreTracker(r) \/ CountFailure(r)
         \/ ResetFailures(r)
  PROVE Passes(r)
<1>0. /\ GateTypes /\ Local(r)
  BY DEF GateInv, NonceOf
<1> USE DEF Goes, Steps, Special, Early, Returning, Local, Past, Passes, GateTypes, Nonce,
            nonceVars, tokenVars
<1>1. CASE Unblock(r)
  BY <1>0, <1>1 DEF Unblock
<1>2. CASE LoadTracker(r)
  BY <1>0, <1>2 DEF LoadTracker
<1>3. CASE StoreTracker(r)
  BY <1>0, <1>3 DEF StoreTracker
<1>4. CASE CountFailure(r)
  BY <1>0, <1>4 DEF CountFailure, Block
<1>5. CASE ResetFailures(r)
  BY <1>0, <1>5 DEF ResetFailures
<1> QED
  BY <1>1, <1>2, <1>3, <1>4, <1>5

LEMMA QuietRest ==
  ASSUME GateInv, NEW r \in Requests,
         \/ Unprotected(r) \/ RefuseToken(r) \/ RefuseRegistration(r)
         \/ CreateAnonymous(r) \/ GenerateMagicLink(r) \/ ValidateMagicLink(r)
         \/ CreateCookie(r) \/ EnterUngated(r)
  PROVE Passes(r)
<1>0. /\ GateTypes /\ Local(r)
  BY DEF GateInv, NonceOf
<1> USE DEF Goes, Steps, Special, Early, Returning, Local, Past, Passes, GateTypes, Nonce,
            nonceVars, tokenVars
<1>1. CASE Unprotected(r)
  BY <1>0, <1>1 DEF Unprotected
<1>2. CASE RefuseToken(r)
  BY <1>0, <1>2 DEF RefuseToken
<1>3. CASE RefuseRegistration(r)
  BY <1>0, <1>3 DEF RefuseRegistration
<1>4. CASE CreateAnonymous(r)
  BY <1>0, <1>4 DEF CreateAnonymous
<1>5. CASE GenerateMagicLink(r)
  BY <1>0, <1>5 DEF GenerateMagicLink
<1>6. CASE ValidateMagicLink(r)
  BY <1>0, <1>6 DEF ValidateMagicLink
<1>7. CASE CreateCookie(r)
  BY <1>0, <1>7 DEF CreateCookie
<1>8. CASE EnterUngated(r)
  BY <1>0, <1>8 DEF EnterUngated
<1> QED
  BY <1>1, <1>2, <1>3, <1>4, <1>5, <1>6, <1>7, <1>8


\* What such a step leaves true.
LEMMA Passing ==
  ASSUME GateInv, NEW r \in Requests, Passes(r)
  PROVE GateInv'
<1> USE DEF GateInv
<1>1. GateTypes'
  BY DEF GateTypes, Passes, nonceVars, tokenVars
<1>2. ASSUME NEW q \in Requests PROVE NonceOf(q)'
  <2>1. Local(q)'
    BY <1>2 DEF NonceOf, Local, Past, Passes, nonceVars, Nonce
  <2>2. Stamped(q)'
    BY <1>2 DEF NonceOf, Stamped, WasTimely, Message, Passes, nonceVars, Nonce, Special, GateTypes
  <2>3. Remembered(q)'
    BY <1>2 DEF NonceOf, Remembered, Passes, nonceVars, Nonce
  <2>4. Unseen(q)'
    BY <1>2 DEF NonceOf, Unseen, Nonce, Passes, nonceVars, Special, GateTypes
  <2> QED
    BY <2>1, <2>2, <2>3, <2>4 DEF NonceOf
<1>3. ASSUME NEW q \in Requests PROVE TokenOf(q)'
  <2>1. \A t \in Requests : pc[t] = "done" => pc'[t] = "done"
    BY DEF Passes
  <2>2. Spender(q)' => Spender(q)
    BY <1>3 DEF Spender, Passes, tokenVars, Special
  <2>3. UNCHANGED <<arrival, tokens, spent, before>>
    BY DEF Passes, tokenVars
  <2> QED
    BY <1>3, <2>1, <2>2, <2>3 DEF TokenOf, Token
<1> QED
  BY <1>1, <1>2, <1>3

(***************************************************************************)
(* Steps that do: first those of the nonce.                                *)
(***************************************************************************)
LEMMA AcceptsStamp ==
  ASSUME GateInv, NEW r \in Requests, AcceptStamp(r)
  PROVE GateInv'
<1> USE DEF GateInv
<1>0. /\ UNCHANGED <<now, arrival, after, looked, seen, markedAt, nonceAt>>
      /\ UNCHANGED <<tokens, spent, before>>
      /\ pc[r] = "auth" /\ pc' = [pc EXCEPT ![r] = "stamped"]
      /\ clock' = [clock EXCEPT ![r] = now] /\ Nonce(r) # Bad /\ Timely(Message(r))
  BY DEF AcceptStamp, Goes, tokenVars
<1>1. GateTypes'
  BY <1>0 DEF GateTypes, Steps
<1>2. markedAt[r] = None /\ Nonce(r) \in Nonces
  BY <1>0, Constants DEF NonceOf, Local, Past, Early, Nonce, GateTypes, ArrivalType
<1>3. ASSUME NEW q \in Requests PROVE NonceOf(q)'
  <2>1. Local(q)'
    BY <1>0, <1>2, <1>3 DEF NonceOf, Local, Past, Returning, Nonce, GateTypes
  <2>2. Stamped(q)'
    <3>1. CASE q = r
      BY <1>0, <1>2, <3>1, Constants DEF Stamped, WasTimely, Message, Timely, Nonce, GateTypes, Second
    <3>2. CASE q # r
      BY <1>0, <1>3, <3>2 DEF NonceOf, Stamped, WasTimely, Message, Nonce, GateTypes
    <3> QED
      BY <3>1, <3>2
  <2>3. Remembered(q)'
    BY <1>0, <1>3 DEF NonceOf, Remembered, Nonce
  <2>4. Unseen(q)'
    BY <1>0, <1>2, <1>3 DEF NonceOf, Unseen, Nonce, GateTypes
  <2> QED
    BY <2>1, <2>2, <2>3, <2>4 DEF NonceOf
<1>4. ASSUME NEW q \in Requests PROVE TokenOf(q)'
  BY <1>0, <1>4 DEF TokenOf, Token, Spender, GateTypes
<1> QED
  BY <1>1, <1>3, <1>4

LEMMA LooksNonce ==
  ASSUME GateInv, NEW r \in Requests, LookNonce(r)
  PROVE GateInv'
<1> USE DEF GateInv
<1>0. /\ UNCHANGED <<now, arrival, after, clock, markedAt, nonceAt, tokens, spent, before>>
      /\ pc[r] = "stamped" /\ pc' = [pc EXCEPT ![r] = "marking"] /\ nonceAt[Nonce(r)] = None
      /\ looked' = [looked EXCEPT ![r] = now]
      /\ seen' = [seen EXCEPT ![r] = Markers(Message(r))]
  BY DEF LookNonce, Goes, tokenVars
<1>1. GateTypes'
  BY <1>0 DEF GateTypes, Steps, Markers
<1>2. markedAt[r] = None
  BY <1>0 DEF NonceOf, Local, Past, Early
<1>3. ASSUME NEW q \in Requests PROVE NonceOf(q)'
  <2>1. Local(q)'
    BY <1>0, <1>2, <1>3 DEF NonceOf, Local, Past, Returning, Nonce, GateTypes
  <2>2. Stamped(q)'
    BY <1>0, <1>3 DEF NonceOf, Stamped, WasTimely, Message, Nonce, GateTypes
  <2>3. Remembered(q)'
    BY <1>0, <1>3 DEF NonceOf, Remembered, Nonce
  <2>4. Unseen(q)'
    <3>1. CASE q = r
      BY <1>0, <3>1 DEF NonceOf, Unseen, Nonce, Remembered, Markers, GateTypes
    <3>2. CASE q # r
      BY <1>0, <1>3, <3>2 DEF NonceOf, Unseen, Nonce, GateTypes
    <3> QED
      BY <3>1, <3>2
  <2> QED
    BY <2>1, <2>2, <2>3, <2>4 DEF NonceOf
<1>4. ASSUME NEW q \in Requests PROVE TokenOf(q)'
  BY <1>0, <1>4 DEF TokenOf, Token, Spender, GateTypes
<1> QED
  BY <1>1, <1>3, <1>4

LEMMA MarksNonce ==
  ASSUME GateInv, NEW r \in Requests, MarkNonce(r)
  PROVE GateInv'
<1> USE DEF GateInv
<1>0. /\ UNCHANGED <<now, arrival, after, clock, looked, seen, tokens, spent, before>>
      /\ pc[r] = "marking" /\ pc' = [pc EXCEPT ![r] = "looking"]
      /\ nonceAt' = [nonceAt EXCEPT ![Nonce(r)] = now]
      /\ markedAt' = [markedAt EXCEPT ![r] = now]
  BY DEF MarkNonce, Goes, tokenVars
<1>1. GateTypes'
  BY <1>0 DEF GateTypes, Steps
<1>2. markedAt[r] = None /\ Nonce(r) \in Nonces /\ now \in Nat
  BY <1>0 DEF NonceOf, Local, Past, Early, Stamped, WasTimely, Message, GateTypes
<1>3. ASSUME NEW q \in Requests PROVE NonceOf(q)'
  <2>1. Local(q)'
    <3>1. CASE q = r
      BY <1>0, <3>1 DEF NonceOf, Local, Past, Early, Returning, GateTypes
    <3>2. CASE q # r
      BY <1>0, <1>3, <3>2 DEF NonceOf, Local, Past, Nonce, GateTypes
    <3> QED
      BY <3>1, <3>2
  <2>2. Stamped(q)'
    BY <1>0, <1>3 DEF NonceOf, Stamped, WasTimely, Message, Nonce, GateTypes
  <2>3. Remembered(q)'
    <3>1. UNCHANGED Nonce(q)
      BY <1>0 DEF Nonce
    <3>2. CASE Nonce(q) = Nonce(r)
      <4>1. nonceAt'[Nonce(q)] = now /\ now # None
        BY <1>0, <1>2, <3>2, Constants DEF GateTypes
      <4>2. markedAt'[q] # None => markedAt'[q] = now \/ markedAt'[q] = markedAt[q]
        BY <1>0, <1>3 DEF GateTypes
      <4>3. markedAt[q] # None => markedAt[q] \in Nat /\ markedAt[q] <= now
        BY <1>3 DEF GateTypes, NonceOf, Remembered
      <4> QED
        BY <1>0, <1>2, <3>1, <4>1, <4>2, <4>3 DEF Remembered
    <3>3. CASE Nonce(q) # Nonce(r)
      BY <1>0, <1>3, <3>1, <3>3 DEF NonceOf, Remembered, GateTypes
    <3> QED
      BY <3>2, <3>3
  <2>4. Unseen(q)'
    <3>1. ASSUME NEW p \in Requests, markedAt[p] # None PROVE markedAt'[p] = markedAt[p]
      BY <1>0, <1>2, <3>1 DEF GateTypes
    <3>2. pc'[q] = "marking" \/ markedAt'[q] # None => pc[q] = "marking" \/ markedAt[q] # None
      BY <1>0, <1>3 DEF GateTypes
    <3>3. seen[q] \subseteq Requests
      BY <1>3 DEF GateTypes
    <3> QED
      BY <1>0, <1>3, <3>1, <3>2, <3>3, Constants DEF NonceOf, Unseen, Nonce, GateTypes
  <2> QED
    BY <2>1, <2>2, <2>3, <2>4 DEF NonceOf
<1>4. ASSUME NEW q \in Requests PROVE TokenOf(q)'
  BY <1>0, <1>4 DEF TokenOf, Token, Spender, GateTypes
<1> QED
  BY <1>1, <1>3, <1>4

LEMMA CleansNonces ==
  ASSUME GateInv, CleanupNonces
  PROVE GateInv'
<1> USE DEF GateInv
<1>0. PICK n \in Nonces : /\ nonceAt[n] # None /\ Forgotten(nonceAt[n])
                          /\ nonceAt' = [nonceAt EXCEPT ![n] = None]
  BY DEF CleanupNonces
<1>1. UNCHANGED <<now, arrival, pc, after, clock, looked, seen, markedAt, tokens, spent, before>>
  BY DEF CleanupNonces, requestVars, tokenVars
<1>2. GateTypes'
  BY <1>0, <1>1 DEF GateTypes
<1>3. ASSUME NEW q \in Requests PROVE NonceOf(q)'
  <2>1. Local(q)' /\ Stamped(q)' /\ Unseen(q)'
    BY <1>1, <1>3 DEF NonceOf, Local, Past, Stamped, WasTimely, Message, Unseen, Nonce
  <2>2. Remembered(q)'
    <3>1. CASE Nonce(q) = n /\ markedAt[q] # None
      BY <1>0, <1>1, <1>3, <3>1, Constants DEF NonceOf, Remembered, Forgotten, Nonce, GateTypes
    <3>2. CASE Nonce(q) # n \/ markedAt[q] = None
      BY <1>0, <1>1, <1>3, <3>2 DEF NonceOf, Remembered, Nonce, GateTypes
    <3> QED
      BY <3>1, <3>2
  <2> QED
    BY <2>1, <2>2 DEF NonceOf
<1>4. ASSUME NEW q \in Requests PROVE TokenOf(q)'
  BY <1>1, <1>4 DEF TokenOf, Token, Spender
<1> QED
  BY <1>2, <1>3, <1>4

LEMMA Ticks ==
  ASSUME GateInv, Tick
  PROVE GateInv'
<1> USE DEF GateInv
<1>1. now' = now + 1 /\ UNCHANGED <<arrival, pc, after, nonceVars, tokenVars>>
  BY DEF Tick, requestVars
<1>2. GateTypes'
  BY <1>1 DEF GateTypes, nonceVars, tokenVars
<1>3. ASSUME NEW q \in Requests PROVE NonceOf(q)'
  <2>1. Local(q)' /\ Stamped(q)' /\ Unseen(q)'
    BY <1>1, <1>3 DEF NonceOf, Local, Past, Stamped, WasTimely, Message, Unseen, Nonce, nonceVars
  <2>2. Remembered(q)'
    BY <1>1, <1>3, Constants DEF NonceOf, Remembered, Nonce, nonceVars, GateTypes
  <2> QED
    BY <2>1, <2>2 DEF NonceOf
<1>4. ASSUME NEW q \in Requests PROVE TokenOf(q)'
  BY <1>1, <1>4 DEF TokenOf, Token, Spender, tokenVars
<1> QED
  BY <1>2, <1>3, <1>4

(***************************************************************************)
(* Then those of the tokens.                                               *)
(***************************************************************************)

\* A step of r, if any, that only takes tokens away and marks no nonce.
Takes(r) ==
  /\ UNCHANGED <<now, arrival, after, nonceVars, spent, before>>
  /\ pc' \in [Requests -> Steps]
  /\ \A q \in Requests : pc'[q] # pc[q] => q = r /\ pc[r] \in {"protect", "handler"}
                                           /\ pc'[r] = "done"
  /\ DOMAIN tokens' = Requests
  /\ \A t \in Requests : tokens'[t] # None => tokens[t] # None

LEMMA Taking ==
  ASSUME GateInv, NEW r \in Requests, Takes(r)
  PROVE GateInv'
<1> USE DEF GateInv
<1>1. GateTypes'
  BY DEF GateTypes, Takes, nonceVars
<1>2. ASSUME NEW q \in Requests PROVE NonceOf(q)'
  <2>1. pc'[q] = pc[q] \/ (pc[q] \notin Early /\ pc'[q] = "done")
    BY <1>2 DEF Takes, Early
  <2>2. UNCHANGED <<now, arrival, after, nonceVars>>
    BY DEF Takes
  <2>3. Local(q)'
    BY <1>2, <2>1, <2>2 DEF NonceOf, Local, Past, Returning, Early, Nonce, nonceVars
  <2>4. Stamped(q)' /\ Remembered(q)' /\ Unseen(q)'
    BY <1>2, <2>1, <2>2 DEF NonceOf, Stamped, WasTimely, Message, Remembered, Unseen, Nonce, nonceVars
  <2> QED
    BY <2>3, <2>4 DEF NonceOf
<1>3. ASSUME NEW q \in Requests PROVE TokenOf(q)'
  <2>1. \A t \in Requests : pc[t] = "done" => pc'[t] = "done"
    BY DEF Takes
  <2>2. Spender(q)' => Spender(q)
    BY <1>3 DEF Spender, Takes
  <2>3. q \in spent => Token(q) \in Requests
    BY <1>3 DEF TokenOf, Spender
  <2> QED
    BY <1>3, <2>1, <2>2, <2>3 DEF TokenOf, Token, Takes
<1> QED
  BY <1>1, <1>2, <1>3

LEMMA TakesTokens ==
  ASSUME GateInv, NEW r \in Requests, ExpireToken(r) \/ Logout(r)
  PROVE Takes(r)
<1>0. GateTypes
  BY DEF GateInv
<1>1. CASE ExpireToken(r)
  BY <1>0, <1>1 DEF ExpireToken, Goes, Takes, GateTypes, Steps, nonceVars
<1>2. CASE Logout(r)
  BY <1>0, <1>2 DEF Logout, InvalidateUserTokens, DeleteCookie, Goes, Takes, GateTypes, Steps, nonceVars
<1> QED
  BY <1>1, <1>2

LEMMA CleansTokens ==
  ASSUME GateInv, CleanupTokens
  PROVE GateInv'
<1>1. PICK t \in Requests : tokens[t] # None /\ tokens' = [tokens EXCEPT ![t] = None]
  BY DEF CleanupTokens
<1>2. Takes(t)
  BY <1>1 DEF CleanupTokens, requestVars, Takes, GateInv, GateTypes
<1> QED
  BY <1>2, Taking

LEMMA AcceptsToken ==
  ASSUME GateInv, NEW r \in Requests, AcceptToken(r)
  PROVE GateInv'
<1> USE DEF GateInv
<1>0. /\ UNCHANGED <<now, arrival, after, nonceVars, tokens, spent>>
      /\ pc[r] = "protect" /\ pc' = [pc EXCEPT ![r] = "spending"]
      /\ before' = [before EXCEPT ![r] = spent]
      /\ Token(r) # None /\ tokens[Token(r)] # None
  BY DEF AcceptToken, Goes, Held
<1>1. GateTypes'
  BY <1>0 DEF GateTypes, Steps, nonceVars
<1>2. Token(r) \in Requests
  BY <1>0, Constants DEF GateTypes, ArrivalType, Token
<1>3. ASSUME NEW q \in Requests PROVE NonceOf(q)'
  <2>1. Local(q)'
    BY <1>0, <1>3 DEF NonceOf, Local, Past, Returning, Early, Nonce, GateTypes, nonceVars
  <2>2. Stamped(q)' /\ Remembered(q)' /\ Unseen(q)'
    BY <1>0, <1>3 DEF NonceOf, Stamped, WasTimely, Message, Remembered, Unseen, Nonce, GateTypes, nonceVars
  <2> QED
    BY <2>1, <2>2 DEF NonceOf
<1>4. r \notin spent
  BY <1>0 DEF TokenOf
<1>5. ASSUME NEW q \in Requests PROVE TokenOf(q)'
  <2>1. \A t \in Requests : pc[t] = "done" => pc'[t] = "done"
    BY <1>0 DEF GateTypes
  <2>2. CASE q = r
    <3>1. \A p \in spent : Token(p) # Token(r)
      BY <1>0 DEF TokenOf, GateTypes
    <3>2. pc[Token(r)] = "done"
      BY <1>0, <1>2 DEF TokenOf
    <3> QED
      BY <1>0, <1>2, <1>4, <2>1, <2>2, <3>1, <3>2 DEF TokenOf, Token, GateTypes
  <2>3. CASE q # r
    <3>1. pc'[q] = pc[q] /\ before'[q] = before[q]
      BY <1>0, <1>5, <2>3 DEF GateTypes
    <3> QED
      BY <1>0, <1>5, <2>1, <3>1 DEF TokenOf, Token, Spender
  <2> QED
    BY <2>2, <2>3
<1> QED
  BY <1>1, <1>3, <1>5

LEMMA SpendsToken ==
  ASSUME GateInv, NEW r \in Requests, SpendToken(r)
  PROVE GateInv'
<1> USE DEF GateInv
<1>0. /\ UNCHANGED <<now, arrival, after, nonceVars, before>>
      /\ pc[r] = "spending" /\ pc' = [pc EXCEPT ![r] = "handler"]
      /\ tokens' = [tokens EXCEPT ![Token(r)] = None]
      /\ spent' = spent \cup {r}
  BY DEF SpendToken, Goes, Dropped
<1>1. GateTypes'
  BY <1>0 DEF GateTypes, Steps, nonceVars
<1>2. Token(r) \in Requests
  BY <1>0 DEF TokenOf, Spender
<1>3. ASSUME NEW q \in Requests PROVE NonceOf(q)'
  <2>1. Local(q)'
    BY <1>0, <1>3 DEF NonceOf, Local, Past, Returning, Early, Nonce, GateTypes, nonceVars
  <2>2. Stamped(q)' /\ Remembered(q)' /\ Unseen(q)'
    BY <1>0, <1>3 DEF NonceOf, Stamped, WasTimely, Message, Remembered, Unseen, Nonce, GateTypes, nonceVars
  <2> QED
    BY <2>1, <2>2 DEF NonceOf
<1>4. ASSUME NEW q \in Requests PROVE TokenOf(q)'
  <2>1. \A t \in Requests : pc[t] = "done" => pc'[t] = "done"
    BY <1>0 DEF GateTypes
  <2>2. \A t \in Requests : tokens'[t] # None => tokens[t] # None /\ t # Token(r)
    BY <1>0, <1>2 DEF GateTypes
  <2>3. Spender(q)' => Spender(q)
    BY <1>0, <1>4 DEF Spender, GateTypes
  <2>4. Spender(q) => Token(q) \in Requests
    BY <1>4 DEF TokenOf
  <2>5. UNCHANGED <<Token(q), Token(r)>>
    BY <1>0 DEF Token
  <2>6. q \in spent' => tokens'[Token(q)] = None
    BY <1>0, <1>2, <1>4, <2>2, <2>4 DEF TokenOf, Spender
  <2>7. \A p \in Requests : Token(p)' = Token(p)
    BY <1>0 DEF Token
  <2>8. Spender(q)' => /\ Token(q)' \in Requests /\ pc'[Token(q)'] = "done"
                       /\ \A p \in before'[q] : p \in spent' /\ Token(p)' # Token(q)'
    BY <1>0, <1>4, <2>1, <2>3, <2>7 DEF TokenOf, GateTypes, Token
  <2> QED
    BY <1>4, <2>1, <2>2, <2>5, <2>6, <2>8 DEF TokenOf
<1> QED
  BY <1>1, <1>3, <1>4

LEMMA GeneratesToken ==
  ASSUME GateInv, NEW r \in Requests, GenerateToken(r)
  PROVE GateInv'
<1> USE DEF GateInv
<1>0. /\ UNCHANGED <<now, arrival, after, nonceVars, spent, before>>
      /\ pc[r] = "handler" /\ pc' = [pc EXCEPT ![r] = "done"]
      /\ DOMAIN tokens' = Requests
      /\ \A t \in Requests \ {r} : tokens'[t] = tokens[t]
  BY DEF GenerateToken, NewToken, Goes, GateTypes
<1>1. GateTypes'
  BY <1>0 DEF GateTypes, Steps, nonceVars
<1>2. ASSUME NEW q \in Requests PROVE NonceOf(q)'
  <2>1. Local(q)'
    BY <1>0, <1>2 DEF NonceOf, Local, Past, Returning, Early, Nonce, GateTypes, nonceVars
  <2>2. Stamped(q)' /\ Remembered(q)' /\ Unseen(q)'
    BY <1>0, <1>2 DEF NonceOf, Stamped, WasTimely, Message, Remembered, Unseen, Nonce, GateTypes, nonceVars
  <2> QED
    BY <2>1, <2>2 DEF NonceOf
<1>3. ASSUME NEW q \in Requests PROVE TokenOf(q)'
  <2>1. \A t \in Requests : pc[t] = "done" => pc'[t] = "done" /\ t # r
    BY <1>0 DEF GateTypes
  <2>2. Spender(q)' => Spender(q)
    BY <1>0, <1>3 DEF Spender, GateTypes
  <2>3. tokens'[q] # None => pc'[q] = "done"
    BY <1>0, <1>3, <2>1 DEF TokenOf, GateTypes
  <2>4. q \in spent => Token(q) \in Requests /\ tokens'[Token(q)] = None
    BY <1>0, <1>3, <2>1 DEF TokenOf, Spender
  <2> QED
    BY <1>0, <1>3, <2>1, <2>2, <2>3, <2>4 DEF TokenOf, Token
<1> QED
  BY <1>1, <1>2, <1>3

(***************************************************************************)
(* The invariant, and what follows from it.                                *)
(***************************************************************************)
LEMMA Initially ==
  ASSUME GateInit PROVE GateInv
<1>1. GateTypes
  BY GateAssumption DEF GateInit, GateTypes, Steps
<1>2. ASSUME NEW r \in Requests PROVE NonceOf(r) /\ TokenOf(r)
  BY <1>2 DEF GateInit, NonceOf, TokenOf, Local, Past, Stamped, Remembered, Unseen, Spender,
              Special, Returning
<1> QED
  BY <1>1, <1>2 DEF GateInv

LEMMA Stutters ==
  ASSUME GateInv, UNCHANGED <<now, arrival, pc, after, nonceVars, tokenVars>>
  PROVE GateInv'
BY DEF GateInv, GateTypes, NonceOf, TokenOf, Local, Past, Stamped, WasTimely, Message, Remembered,
       Unseen, Spender, Token, Nonce, nonceVars, tokenVars

LEMMA Inductive ==
  ASSUME GateInv, [GateNext]_gateVars PROVE GateInv'
<1>1. ASSUME NEW r \in Requests, SignedStep(r) PROVE GateInv'
  BY <1>1, QuietSigned, Passing, AcceptsStamp, LooksNonce, MarksNonce DEF SignedStep
<1>2. ASSUME NEW r \in Requests, AnyStep(r) PROVE GateInv'
  BY <1>2, QuietAny, Passing DEF AnyStep
<1>3. ASSUME NEW r \in Requests, BlockStep(r) PROVE GateInv'
  BY <1>3, QuietBlock, Passing DEF BlockStep
<1>4. ASSUME NEW r \in Requests, TokenStep(r) PROVE GateInv'
  BY <1>4, QuietRest, Passing, TakesTokens, Taking, AcceptsToken, SpendsToken, GeneratesToken
     DEF TokenStep
<1>5. ASSUME NEW r \in Requests, AccountStep(r) PROVE GateInv'
  BY <1>5, QuietRest, Passing DEF AccountStep, RegisterMagicLink, LoginWithMagicLink
<1>6. CASE CleanupBlocks \/ CleanupTrackers
  BY <1>6, Stutters DEF CleanupBlocks, CleanupTrackers, requestVars
<1>7. CASE UNCHANGED gateVars
  BY <1>7, Stutters DEF gateVars, requestVars
<1> QED
  BY <1>1, <1>2, <1>3, <1>4, <1>5, <1>6, <1>7, CleansNonces, CleansTokens, Ticks DEF GateNext

LEMMA Invariant == Spec => []GateInv
<1>1. Init => GateInv
  BY Initially DEF Init
<1>2. GateInv /\ [Next]_vars => GateInv'
  BY Inductive DEF Next, vars
<1> QED
  BY <1>1, <1>2, PTL DEF Spec

(***************************************************************************)
(* A nonce is accepted twice only when it had outlived its                 *)
(* window (middleware/auth.go:128, replay.go:47, 106).                     *)
(***************************************************************************)
THEOREM NonceIsStoredOnce == Spec => []NonceOnce
<1>1. ASSUME GateInv PROVE NonceOnce
  <2> SUFFICES ASSUME NEW r \in Requests, markedAt[r] # None, NEW q \in seen[r],
                      Nonce(q) = Nonce(r)
               PROVE /\ looked[r] > markedAt[q] + 2 * Window
                     /\ \/ Stamp[Message(r)] >= Second(markedAt[q])
                        \/ clock[r] <= markedAt[q] + 2 * Window
    BY DEF NonceOnce
  <2>1. GateTypes /\ NonceOf(r) /\ q \in Requests
    BY <1>1 DEF GateInv, GateTypes
  <2>2. markedAt[q] # None /\ looked[r] > markedAt[q] + 2 * Window
    BY <2>1 DEF NonceOf, Unseen
  <2>3. Nonce(r) \in Nonces /\ Second(clock[r]) - Stamp[Message(r)] <= Window
    BY <2>1 DEF NonceOf, Stamped, WasTimely, Message
  <2>4. markedAt[q] \in Nat /\ clock[r] \in Nat /\ Stamp[Message(r)] \in Nat /\ Window \in Nat
    BY <2>1, <2>2, <2>3, Constants DEF GateTypes, Message
  <2>5. clock[r] > markedAt[q] + 2 * Window
          => clock[r] \div 2 >= markedAt[q] \div 2 + Window
    BY <2>4
  <2>6. clock[r] \div 2 \in Int /\ markedAt[q] \div 2 \in Int
    BY <2>4
  <2> QED
    BY <2>2, <2>3, <2>4, <2>5, <2>6 DEF Second
<1> QED
  BY <1>1, Invariant, PTL

(***************************************************************************)
(* A token lets one request pass, or requests that overlapped              *)
(* (security/csrf.go:58-81).                                               *)
(***************************************************************************)
THEOREM TokenIsSpentOnce == Spec => []TokenOnce
<1>1. ASSUME GateInv PROVE TokenOnce
  BY <1>1 DEF GateInv, GateTypes, TokenOnce, TokenOf, Spender
<1> QED
  BY <1>1, Invariant, PTL

(***************************************************************************)
(* Votes and owners.  An id is not used twice, so what a request that is   *)
(* about to vote has seen of the station stays true.                       *)
(***************************************************************************)
Voting(r) == step[r] \in {"address", "subnet", "upsert"}

Handled(r) ==
  /\ pc[r] = "handler" /\ Want(r) \notin {"token", "logout"}
  /\ Id(r) < nextId
  /\ Station(r) # None => Station(r).owner # Actor(r)

RowTypes ==
  /\ pc \in [Requests -> Steps] /\ DOMAIN user = Requests /\ arrival \in Arrivals
  /\ DOMAIN step = Requests /\ DOMAIN rows = Ids /\ nextId \in Nat
  /\ \E V : votes \in [Ids -> [Users -> V]]

RowInv ==
  /\ RowTypes
  /\ \A i \in Ids : rows[i] # None => i < nextId
  /\ \A i \in Ids, u \in Users : votes[i][u] # None =>
       i < nextId /\ (rows[i] # None => rows[i].owner # u)
  /\ \A r \in Requests : Voting(r) => Handled(r)

\* A step at the gate leaves a request alone that a handler has, unless it
\* wants a token or to log out.
Keeps ==
  /\ UNCHANGED arrival
  /\ pc' \in [Requests -> Steps] /\ DOMAIN user' = Requests
  /\ \A q \in Requests : pc[q] = "handler" /\ Want(q) \notin {"token", "logout"} =>
       pc'[q] = "handler" /\ user'[q] = user[q]

LEMMA KeepsSigned ==
  ASSUME RowTypes, GateTypes, NEW r \in Requests, SignedStep(r) PROVE Keeps
BY DEF RowTypes, GateTypes, SignedStep, Keeps, Goes, Steps, RefuseAuth, RefuseStamp, AcceptStamp,
       FindReplay, LookNonce, MarkNonce, Cached, Verify, RefuseSignature, SetCache, SelectUser,
       InsertUser, Fails

LEMMA KeepsAny ==
  ASSUME RowTypes, GateTypes, NEW r \in Requests, AnyStep(r) PROVE Keeps
BY DEF RowTypes, GateTypes, AnyStep, Keeps, Goes, Steps, EnterAny, EnterSigned, LimitCookie,
       AcceptCookie, RefuseCookie, NoCookie, LimitKey, AcceptKey, RefuseKey, Unauthorized, Fails,
       IsBlocked, Admits

LEMMA KeepsBlock ==
  ASSUME RowTypes, GateTypes, NEW r \in Requests, BlockStep(r) PROVE Keeps
BY DEF RowTypes, GateTypes, BlockStep, Keeps, Goes, Steps, Unblock, LoadTracker, StoreTracker,
       CountFailure, ResetFailures

LEMMA KeepsToken ==
  ASSUME RowTypes, GateTypes, NEW r \in Requests, TokenStep(r) PROVE Keeps
BY DEF RowTypes, GateTypes, TokenStep, Keeps, Goes, Steps, Unprotected, RefuseToken, ExpireToken,
       AcceptToken, SpendToken, GenerateToken, Logout

LEMMA KeepsAccount ==
  ASSUME RowTypes, GateTypes, NEW r \in Requests, AccountStep(r) PROVE Keeps
BY DEF RowTypes, GateTypes, AccountStep, Keeps, Goes, Steps, RegisterMagicLink, RefuseRegistration,
       CreateAnonymous, GenerateMagicLink, LoginWithMagicLink, ValidateMagicLink, CreateCookie, EnterUngated

LEMMA GateKeeps ==
  ASSUME RowTypes, GateTypes, [GateNext]_gateVars PROVE Keeps
<1>1. CASE CleanupBlocks \/ CleanupTrackers \/ CleanupNonces \/ CleanupTokens \/ Tick
  BY <1>1 DEF CleanupBlocks, CleanupTrackers, CleanupNonces, CleanupTokens, Tick, requestVars,
              Keeps, RowTypes
<1>2. CASE UNCHANGED gateVars
  BY <1>2 DEF gateVars, requestVars, Keeps, RowTypes
<1> QED
  BY <1>1, <1>2, KeepsSigned, KeepsAny, KeepsBlock, KeepsToken, KeepsAccount DEF GateNext

\* What such a step leaves true.
LEMMA Keeping ==
  ASSUME RowInv, Keeps, UNCHANGED rowVars PROVE RowInv'
<1> USE DEF RowInv
<1>1. RowTypes'
  BY DEF RowTypes, Keeps, rowVars
<1>2. ASSUME NEW r \in Requests, Voting(r)' PROVE Handled(r)'
  <2>1. Handled(r)
    BY <1>2 DEF Voting, rowVars
  <2>2. pc'[r] = "handler" /\ user'[r] = user[r] /\ UNCHANGED arrival
    BY <2>1 DEF Handled, Keeps
  <2> QED
    BY <2>1, <2>2 DEF Handled, rowVars, Want, Id, Station, Actor, Op
<1> QED
  BY <1>1, <1>2 DEF rowVars

\* A request is about a station's id, whether or not the station exists.
LEMMA ActFacts ==
  ASSUME RowTypes, NEW r \in Requests
  PROVE /\ Id(r) \in Ids /\ Ids \subseteq Nat
        /\ DOMAIN step = Requests
<1>1. arrival[r] \in ArrivalType
  BY Constants DEF RowTypes
<1>2. arrival[r].act \in Act
  BY <1>1, StationsAssumption DEF ArrivalType
<1>3. Ids \subseteq Nat
  BY DEF Ids
<1> QED
  BY <1>2, <1>3 DEF Id, Act, RowTypes

\* A step of a handler that changes no owner and no vote.
Narrows ==
  /\ UNCHANGED <<pc, user, arrival, nextId, votes>>
  /\ DOMAIN rows' = Ids /\ DOMAIN step' = Requests
  /\ \A i \in Ids : rows'[i] # None => rows[i] # None /\ rows'[i].owner = rows[i].owner
  /\ \A q \in Requests : Voting(q)' => Voting(q) \/ Handled(q)

LEMMA Narrowing ==
  ASSUME RowInv, Narrows PROVE RowInv'
<1> USE DEF RowInv
<1>1. RowTypes'
  BY DEF RowTypes, Narrows
<1>2. ASSUME NEW r \in Requests, Voting(r)' PROVE Handled(r)'
  <2>1. Handled(r)
    BY <1>2 DEF Narrows
  <2>2. Id(r) \in Ids
    BY ActFacts
  <2>3. UNCHANGED <<Id(r), Actor(r), Want(r)>>
    BY DEF Narrows, Id, Actor, Op, Want
  <2> QED
    BY <2>1, <2>2, <2>3 DEF Handled, Narrows, Station
<1> QED
  BY <1>1, <1>2 DEF Narrows

LEMMA NarrowSteps ==
  ASSUME RowInv, NEW r \in Requests, UNCHANGED gateVars,
         \/ Reject(r) \/ Open(r) \/ Update(r) \/ UpdatePlaylistConfig(r) \/ Delete(r)
         \/ DeleteByHand(r) \/ Read(r) \/ SubmitRating(r) \/ ReceiveFederatedRating(r)
         \/ CheckIPv6Duplicate(r) \/ CheckSubnetDuplicate(r) \/ SubmitFederatedRating(r)
         \/ ForwardRating(r)
  PROVE Narrows
<1>0. /\ UNCHANGED <<pc, user, arrival>>
      /\ DOMAIN step = Requests /\ DOMAIN rows = Ids /\ Id(r) \in Ids
  BY ActFacts DEF RowInv, RowTypes, gateVars, requestVars
<1> USE DEF Narrows, Voting, Moves
<1>1. CASE Reject(r)
  BY <1>0, <1>1 DEF Reject
<1>2. CASE Open(r)
  BY <1>0, <1>2 DEF Open
<1>3. CASE Update(r) \/ UpdatePlaylistConfig(r)
  BY <1>0, <1>3 DEF Update, UpdatePlaylistConfig, Writes, NotFound, Station
<1>4. CASE Delete(r) \/ DeleteByHand(r)
  BY <1>0, <1>4 DEF Delete, DeleteByHand
<1>5. CASE Read(r) \/ SubmitFederatedRating(r) \/ ForwardRating(r)
  BY <1>0, <1>5 DEF Read, SubmitFederatedRating, ForwardRating
<1>6. CASE SubmitRating(r) \/ ReceiveFederatedRating(r)
  <2>1. \A q \in Requests : Voting(q)' => Voting(q) \/ q = r
    BY <1>0, <1>6 DEF SubmitRating, ReceiveFederatedRating, LookStation
  <2>2. Voting(r)' => Station(r) # None /\ Station(r).owner # Actor(r)
    BY <1>0, <1>6 DEF SubmitRating, ReceiveFederatedRating, LookStation, NotFound
  <2>3. Station(r) # None => Id(r) < nextId
    BY <1>0 DEF RowInv, Station
  <2>4. pc[r] = "handler" /\ Want(r) \notin {"token", "logout"}
    BY <1>6 DEF SubmitRating, ReceiveFederatedRating, LookStation
  <2>5. UNCHANGED <<rows, nextId, votes>> /\ DOMAIN step' = Requests
    BY <1>0, <1>6 DEF SubmitRating, ReceiveFederatedRating, LookStation
  <2> QED
    BY <1>0, <2>1, <2>2, <2>3, <2>4, <2>5 DEF Handled
<1>7. CASE CheckIPv6Duplicate(r) \/ CheckSubnetDuplicate(r)
  BY <1>0, <1>7 DEF CheckIPv6Duplicate, CheckSubnetDuplicate
<1> QED
  BY <1>1, <1>2, <1>3, <1>4, <1>5, <1>6, <1>7

\* Nobody has looked at the id a new station gets, or voted for it.
LEMMA Creates ==
  ASSUME RowInv, NEW r \in Requests, Create(r), UNCHANGED gateVars PROVE RowInv'
<1>1. CASE UNCHANGED <<rows, nextId, written>>
  <2>1. Narrows
    BY <1>1 DEF Narrows, Create, Moves, Voting, RowInv, RowTypes, gateVars, requestVars
  <2> QED
    BY <2>1, Narrowing
<1>2. CASE ~ UNCHANGED <<rows, nextId, written>>
  <2>0. /\ DOMAIN rows' = Ids /\ nextId' = nextId + 1 /\ nextId \in Nat
        /\ \A i \in Ids : i # nextId => rows'[i] = rows[i]
        /\ UNCHANGED <<votes, pc, user, arrival>>
        /\ DOMAIN step' = Requests
        /\ \A q \in Requests : Voting(q)' => Voting(q)
    BY <1>2 DEF Create, NextFree, Moves, Voting, RowInv, RowTypes, gateVars, requestVars
  <2>1. RowTypes'
    <3>1. PICK V : votes \in [Ids -> [Users -> V]]
      BY DEF RowInv, RowTypes
    <3>2. \E W : votes' \in [Ids -> [Users -> W]]
      BY <2>0, <3>1
    <3>3. nextId' \in Nat
      BY <2>0
    <3>4. /\ pc' \in [Requests -> Steps] /\ DOMAIN user' = Requests
          /\ arrival' \in Arrivals
      BY <2>0 DEF RowInv, RowTypes
    <3> QED
      BY <2>0, <3>2, <3>3, <3>4 DEF RowTypes
  <2>2. Ids \subseteq Nat
    BY ActFacts DEF RowInv
  <2>3. \A i \in Ids : rows'[i] # None => i < nextId'
    BY <2>0, <2>2 DEF RowInv
  <2>4. ASSUME NEW i \in Ids, NEW u \in Users, votes'[i][u] # None
        PROVE i < nextId' /\ (rows'[i] # None => rows'[i].owner # u)
    <3>1. i < nextId /\ (rows[i] # None => rows[i].owner # u)
      BY <2>0, <2>4 DEF RowInv
    <3> QED
      BY <2>0, <2>2, <3>1
  <2>5. ASSUME NEW q \in Requests, Voting(q)' PROVE Handled(q)'
    <3>1. Handled(q) /\ Id(q) \in Ids
      BY <2>0, <2>5, ActFacts DEF RowInv
    <3>2. UNCHANGED <<Id(q), Actor(q), Want(q), pc>>
      BY <2>0 DEF Id, Actor, Op, Want
    <3>3. Id(q) < nextId' /\ rows'[Id(q)] = rows[Id(q)]
      <4>1. Id(q) < nextId
        BY <3>1 DEF Handled
      <4> DEFINE j == Id(q)
      <4>2. j \in Nat /\ j < nextId /\ j \in Ids
        BY <2>2, <3>1, <4>1
      <4> HIDE DEF j
      <4>3. j < nextId' /\ j # nextId
        BY <2>0, <4>2
      <4>4. rows'[j] = rows[j]
        BY <2>0, <4>2, <4>3
      <4> QED
        BY <4>3, <4>4 DEF j
    <3> QED
      BY <3>1, <3>2, <3>3 DEF Handled, Station
  <2> QED
    BY <2>1, <2>3, <2>4, <2>5 DEF RowInv
<1> QED
  BY <1>1, <1>2

LEMMA Upserts ==
  ASSUME RowInv, NEW r \in Requests, UpsertRating(r), UNCHANGED gateVars PROVE RowInv'
<1>0. /\ UNCHANGED <<rows, nextId, pc, user, arrival>>
      /\ DOMAIN step' = Requests /\ Voting(r)
      /\ \A q \in Requests : Voting(q)' => Voting(q)
      /\ votes' = [votes EXCEPT ![Id(r)][Actor(r)] = [from |-> From(r), by |-> r]]
  BY DEF UpsertRating, Moves, Voting, RowInv, RowTypes, gateVars, requestVars
<1>1. PICK V : votes \in [Ids -> [Users -> V]]
  BY DEF RowInv, RowTypes
<1>2. Handled(r) /\ Id(r) \in Ids
  BY <1>0, ActFacts DEF RowInv
<1>3. votes' \in [Ids -> [Users -> V \cup {[from |-> From(r), by |-> r]}]]
  BY <1>0, <1>1, <1>2
<1>4. RowTypes'
  BY <1>0, <1>3 DEF RowInv, RowTypes
<1>5. ASSUME NEW i \in Ids, NEW u \in Users, votes'[i][u] # None
      PROVE i < nextId /\ (rows[i] # None => rows[i].owner # u)
  <2>1. CASE i = Id(r) /\ u = Actor(r)
    BY <1>2, <2>1 DEF Handled, Station
  <2>2. CASE ~(i = Id(r) /\ u = Actor(r))
    <3>1. votes'[i][u] = votes[i][u]
      BY <1>0, <1>1, <1>2, <2>2
    <3> QED
      BY <1>5, <3>1 DEF RowInv
  <2> QED
    BY <2>1, <2>2
<1>6. ASSUME NEW q \in Requests, Voting(q)' PROVE Handled(q)'
  <2>1. Handled(q)
    BY <1>0, <1>6 DEF RowInv
  <2>2. UNCHANGED <<Id(q), Actor(q), Want(q), Station(q)>>
    BY <1>0 DEF Id, Actor, Op, Want, Station
  <2> QED
    BY <1>0, <2>1, <2>2 DEF Handled
<1> QED
  BY <1>0, <1>4, <1>5, <1>6 DEF RowInv

LEMMA RowsInductive ==
  ASSUME GateInv, RowInv, [Next]_vars PROVE RowInv'
<1>1. RowTypes /\ GateTypes
  BY DEF RowInv, GateInv
<1>2. CASE [GateNext]_gateVars /\ UNCHANGED rowVars
  BY <1>1, <1>2, GateKeeps, Keeping
<1>3. ASSUME NEW r \in Requests, Handle(r), UNCHANGED gateVars PROVE RowInv'
  BY <1>3, NarrowSteps, Narrowing, Creates, Upserts DEF Handle
<1> QED
  BY <1>2, <1>3 DEF Next, vars

LEMMA RowInvariant == Spec => [](GateInv /\ RowInv)
<1>1. Init => RowInv
  <2> SUFFICES ASSUME Init PROVE RowInv
    OBVIOUS
  <2>1. Ids \subseteq Nat
    BY DEF Ids
  <2>2. RowTypes
    BY GateAssumption DEF Init, GateInit, RowTypes, Steps
  <2> QED
    BY <2>1, <2>2 DEF Init, RowInv, Voting
<1> QED
  BY <1>1, RowsInductive, Invariant, PTL DEF Spec

(***************************************************************************)
(* No owner has a vote on his station, whatever the requests do in the     *)
(* statements between looking and voting (ratings.go:150, 654).            *)
(***************************************************************************)
THEOREM OwnersHaveNoVote == Spec => []OwnersDoNotVote
<1>1. RowInv => OwnersDoNotVote
  BY DEF RowInv, OwnersDoNotVote
<1> QED
  BY <1>1, RowInvariant, PTL

(***************************************************************************)
(* Blocks.  A tracker's count is covered by failures since its window      *)
(* began, whoever else counts on it and whatever becomes of it.            *)
(***************************************************************************)
Settled == {"storing", "counting"}

BlockTypes ==
  /\ now \in Nat /\ failed \in Seq(Nat)
  /\ count \in [Trackers -> Nat] /\ first \in [Trackers -> Nat]
  /\ blocked \in Nat \cup {None} /\ current \in Trackers \cup {None}
  /\ tracker \in [Requests -> Trackers \cup {None}]

\* A request comes to count by LoadTracker alone, and has a tracker then.
Counting(r) ==
  /\ after[r] \notin Settled
  /\ pc[r] \in Settled => tracker[r] \in Trackers

Covered(t) ==
  /\ first[t] <= now
  /\ Cardinality(Failures(first[t], now)) >= count[t]

BlockInv ==
  /\ BlockTypes
  /\ \A r \in Requests : Counting(r)
  /\ \A t \in Trackers : Covered(t)
  /\ BlockIsEarned

LEMMA BlockConstants ==
  /\ Threshold \in Nat /\ FailWindow \in Nat /\ BlockTime \in Nat
  /\ None \notin Nat /\ None \notin Trackers /\ IsFiniteSet(Requests)
  BY GateAssumption DEF Trackers

\* The failures of a history that lie in a window.
InWindow(times, a, b) == {i \in 1 .. Len(times) : times[i] \in a .. b}

LEMMA WindowOfFailures ==
  ASSUME failed \in Seq(Nat), NEW a, NEW b
  PROVE  Failures(a, b) = InWindow(failed, a, b)
  BY DEF Failures, InWindow

LEMMA FiniteWindow ==
  ASSUME NEW times \in Seq(Nat), NEW a, NEW b
  PROVE  /\ IsFiniteSet(InWindow(times, a, b))
         /\ Cardinality(InWindow(times, a, b)) \in Nat
<1>1. IsFiniteSet(1 .. Len(times))
  BY FS_Interval
<1>2. InWindow(times, a, b) \in SUBSET (1 .. Len(times))
  BY DEF InWindow
<1> QED
  BY <1>1, <1>2, FS_Subset, FS_CardinalityType

\* A wider window holds no fewer failures.
LEMMA WiderWindow ==
  ASSUME NEW times \in Seq(Nat), NEW a \in Int, NEW b \in Int, NEW c \in Int,
         NEW d \in Int, c <= a, b <= d
  PROVE  Cardinality(InWindow(times, a, b)) <= Cardinality(InWindow(times, c, d))
<1>1. InWindow(times, a, b) \in SUBSET InWindow(times, c, d)
  BY DEF InWindow
<1> QED
  BY <1>1, FiniteWindow, FS_Subset

\* A failure that is counted later takes nothing away from a window, and adds
\* one to those it lies in.
LEMMA LongerHistory ==
  ASSUME NEW times \in Seq(Nat), NEW t \in Nat, NEW a \in Int, NEW b \in Int
  PROVE  /\ Append(times, t) \in Seq(Nat)
         /\ Cardinality(InWindow(Append(times, t), a, b)) =
              Cardinality(InWindow(times, a, b)) + (IF a <= t /\ t <= b THEN 1 ELSE 0)
<1> DEFINE n == Len(times) + 1
<1>1. Append(times, t) \in Seq(Nat) /\ Len(Append(times, t)) = n
  OBVIOUS
<1>2. /\ Append(times, t)[n] = t
      /\ \A i \in 1 .. Len(times) : Append(times, t)[i] = times[i]
  OBVIOUS
<1>3. n \notin InWindow(times, a, b)
  BY DEF InWindow
<1>4. CASE a <= t /\ t <= b
  <2>1. InWindow(Append(times, t), a, b) = InWindow(times, a, b) \cup {n}
    BY <1>1, <1>2, <1>4 DEF InWindow
  <2> QED
    BY <1>1, <1>3, <1>4, <2>1, FiniteWindow, FS_AddElement
<1>5. CASE ~(a <= t /\ t <= b)
  <2>1. InWindow(Append(times, t), a, b) = InWindow(times, a, b)
    BY <1>1, <1>2, <1>5 DEF InWindow
  <2> QED
    BY <1>1, <1>5, <2>1, FiniteWindow
<1> QED
  BY <1>4, <1>5

\* There is always a tracker left for a new pointer.
LEMMA FreshTracker ==
  ASSUME tracker \in [Requests -> Trackers \cup {None}], current = None
  PROVE  Fresh \in Trackers
<1> DEFINE free(t) == t # current /\ \A q \in Requests : tracker[q] # t
           n == Cardinality(Requests)
<1>1. IsFiniteSet(Requests) /\ n \in Nat /\ None \notin Trackers
  BY BlockConstants, FS_CardinalityType
<1>2. IsFiniteSet(Trackers) /\ Cardinality(Trackers) = n + 1
  BY <1>1, FS_Interval DEF Trackers
<1>3. \E t \in Trackers : free(t)
  <2>1. SUFFICES ASSUME \A t \in Trackers : \E q \in Requests : tracker[q] = t
                 PROVE  FALSE
    BY <1>1
  <2> DEFINE holder == [t \in Trackers |-> CHOOSE q \in Requests : tracker[q] = t]
  <2>2. \A t \in Trackers : holder[t] \in Requests /\ tracker[holder[t]] = t
    BY <2>1
  <2>3. holder \in [Trackers -> Requests]
    BY <2>2
  <2> HIDE DEF holder
  <2>4. \E s, t \in Trackers : s # t /\ holder[s] = holder[t]
    BY <1>1, <1>2, <2>3, FS_PigeonHole
  <2> QED
    BY <2>2, <2>4
<1> QED
  BY <1>3 DEF Fresh

\* A step that counts nothing, and brings no request to where it would.
Away ==
  /\ UNCHANGED <<now, blocked, current, count, first, tracker, failed>>
  /\ \A q \in Requests : Counting(q) => Counting(q)'

LEMMA AwaySigned ==
  ASSUME GateTypes, NEW r \in Requests, SignedStep(r) PROVE Away
BY DEF GateTypes, SignedStep, Away, Counting, Settled, blockVars, Goes, RefuseAuth, RefuseStamp,
       AcceptStamp, FindReplay, LookNonce, MarkNonce, Cached, Verify, RefuseSignature, SetCache,
       SelectUser, InsertUser, Fails

LEMMA AwayAny ==
  ASSUME GateTypes, NEW r \in Requests, AnyStep(r) PROVE Away
BY DEF GateTypes, AnyStep, Away, Counting, Settled, blockVars, Goes, EnterAny, EnterSigned,
       LimitCookie, AcceptCookie, RefuseCookie, NoCookie, LimitKey, AcceptKey, RefuseKey,
       Unauthorized, Fails, IsBlocked, Admits

LEMMA AwayToken ==
  ASSUME GateTypes, NEW r \in Requests, TokenStep(r) PROVE Away
BY DEF GateTypes, TokenStep, Away, Counting, Settled, blockVars, Goes, Unprotected, RefuseToken,
       ExpireToken, AcceptToken, SpendToken, GenerateToken, Logout

LEMMA AwayAccount ==
  ASSUME GateTypes, NEW r \in Requests, AccountStep(r) PROVE Away
BY DEF GateTypes, AccountStep, Away, Counting, Settled, blockVars, Goes, RegisterMagicLink,
       RefuseRegistration, CreateAnonymous, GenerateMagicLink, LoginWithMagicLink,
       ValidateMagicLink, CreateCookie, EnterUngated

LEMMA AwayCleanup ==
  ASSUME CleanupNonces \/ CleanupTokens \/ UNCHANGED gateVars PROVE Away
BY DEF CleanupNonces, CleanupTokens, gateVars, Away, Counting, blockVars, requestVars

LEMMA StayingAway ==
  ASSUME BlockInv, Away PROVE BlockInv'
<1> USE DEF BlockInv
<1>1. BlockTypes' /\ \A t \in Trackers : Covered(t)'
  BY DEF Away, BlockTypes, Covered, Failures
<1>2. BlockIsEarned'
  BY DEF Away, BlockIsEarned, Failures
<1> QED
  BY <1>1, <1>2 DEF Away

\* A step that takes a block or the tracker in force away.
Forgets ==
  /\ UNCHANGED <<now, count, first, tracker, failed>>
  /\ blocked' \in {blocked, None} /\ current' \in {current, None}
  /\ \A q \in Requests : Counting(q) => Counting(q)'

LEMMA Forgetting ==
  ASSUME BlockInv, Forgets PROVE BlockInv'
<1> USE DEF BlockInv
<1>1. BlockTypes' /\ \A t \in Trackers : Covered(t)'
  BY DEF Forgets, BlockTypes, Covered, Failures
<1>2. BlockIsEarned'
  BY DEF Forgets, BlockIsEarned, Failures
<1> QED
  BY <1>1, <1>2 DEF Forgets

LEMMA ForgetSteps ==
  ASSUME GateTypes, BlockInv,
         \/ \E r \in Requests : Unblock(r) \/ ResetFailures(r)
         \/ CleanupBlocks \/ CleanupTrackers
  PROVE  Forgets
<1>1. ASSUME NEW r \in Requests, Unblock(r) \/ ResetFailures(r) PROVE Forgets
  BY <1>1 DEF GateTypes, BlockInv, Unblock, ResetFailures, Goes, Forgets, Counting
<1>2. CASE CleanupBlocks \/ CleanupTrackers
  BY <1>2 DEF CleanupBlocks, CleanupTrackers, Forgets, Counting, requestVars
<1> QED
  BY <1>1, <1>2

\* Time makes the window of a tracker longer.
LEMMA TicksCover ==
  ASSUME BlockInv, Tick PROVE BlockInv'
<1> USE DEF BlockInv
<1>0. /\ now' = now + 1 /\ UNCHANGED <<pc, after, blockVars>>
      /\ now \in Nat /\ failed \in Seq(Nat) /\ first \in [Trackers -> Nat]
      /\ count \in [Trackers -> Nat]
  BY DEF Tick, requestVars, BlockTypes
<1>1. BlockTypes' /\ BlockIsEarned' /\ \A r \in Requests : Counting(r)'
  BY <1>0 DEF BlockTypes, BlockIsEarned, Failures, Counting, blockVars
<1>2. ASSUME NEW t \in Trackers PROVE Covered(t)'
  <2>1. first[t] <= now /\ Cardinality(InWindow(failed, first[t], now)) >= count[t]
    BY <1>0, <1>2, WindowOfFailures DEF Covered
  <2>2. /\ Failures(first[t], now)' = InWindow(failed, first[t], now + 1)
    BY <1>0 DEF Failures, InWindow, blockVars
  <2>3. /\ Cardinality(InWindow(failed, first[t], now)) <=
             Cardinality(InWindow(failed, first[t], now + 1))
        /\ Cardinality(InWindow(failed, first[t], now)) \in Nat
        /\ Cardinality(InWindow(failed, first[t], now + 1)) \in Nat
    BY <1>0, <1>2, WiderWindow, FiniteWindow
  <2> HIDE DEF BlockInv
  <2>4. Covered(t)' <=> /\ first[t] <= now + 1
                        /\ Cardinality(InWindow(failed, first[t], now + 1)) >= count[t]
    BY <1>0, <2>2 DEF Covered, blockVars
  <2> QED
    BY <1>0, <1>2, <2>1, <2>3, <2>4
<1> QED
  BY <1>1, <1>2

LEMMA LoadsTracker ==
  ASSUME GateTypes, BlockInv, NEW r \in Requests, LoadTracker(r) PROVE BlockInv'
<1> USE DEF BlockInv
<1>0. /\ UNCHANGED <<now, blocked, failed, current, after>>
      /\ pc' = [pc EXCEPT ![r] = IF current = None THEN "storing" ELSE "counting"]
      /\ tracker' = [tracker EXCEPT ![r] = IF current = None THEN Fresh ELSE current]
      /\ BlockTypes
  BY DEF LoadTracker, Goes
<1>1. current = None => Fresh \in Trackers
  BY <1>0, FreshTracker DEF BlockTypes
<1>2. tracker'[r] \in Trackers /\ tracker' \in [Requests -> Trackers \cup {None}]
  BY <1>0, <1>1 DEF BlockTypes
<1>3. \A q \in Requests : Counting(q)'
  BY <1>0, <1>2 DEF Counting, BlockTypes, GateTypes
<1>5. BlockIsEarned'
  BY <1>0 DEF BlockIsEarned, Failures
<1>6. CASE current # None
  <2>1. UNCHANGED <<count, first>>
    BY <1>6 DEF LoadTracker
  <2> QED
    BY <1>0, <1>2, <1>3, <1>5, <2>1 DEF BlockTypes, Covered, Failures
<1>7. CASE current = None
  <2>1. count' = [count EXCEPT ![Fresh] = 0] /\ first' = [first EXCEPT ![Fresh] = now]
    BY <1>7 DEF LoadTracker
  <2>2. BlockTypes'
    BY <1>0, <1>1, <1>2, <1>7, <2>1 DEF BlockTypes
  <2>3. ASSUME NEW t \in Trackers PROVE Covered(t)'
    <3>1. CASE t = Fresh
      <4>1. count'[t] = 0 /\ first'[t] = now /\ now' = now /\ failed \in Seq(Nat) /\ now \in Nat
        BY <1>0, <2>1, <3>1, <2>3 DEF BlockTypes
      <4>2. Failures(first[t], now)' = InWindow(failed, now, now)
        BY <1>0, <4>1 DEF Failures, InWindow
      <4> QED
        BY <4>1, <4>2, FiniteWindow DEF Covered
    <3>2. CASE t # Fresh
      <4>1. count'[t] = count[t] /\ first'[t] = first[t]
        BY <2>1, <3>2, <2>3, <1>0 DEF BlockTypes
      <4> QED
        BY <1>0, <4>1 DEF Covered, Failures
    <3> QED
      BY <3>1, <3>2
  <2> QED
    BY <1>3, <1>5, <2>2, <2>3
<1> QED
  BY <1>6, <1>7

LEMMA StoresTracker ==
  ASSUME GateTypes, BlockInv, NEW r \in Requests, StoreTracker(r) PROVE BlockInv'
<1> USE DEF BlockInv
<1>0. /\ UNCHANGED <<now, blocked, failed, after, tracker, count, first>>
      /\ pc[r] = "storing" /\ pc' = [pc EXCEPT ![r] = "counting"]
      /\ current' = tracker[r] /\ BlockTypes
  BY DEF StoreTracker, Goes
<1>1. tracker[r] \in Trackers
  BY <1>0 DEF Counting, Settled
<1>2. BlockTypes' /\ \A q \in Requests : Counting(q)'
  BY <1>0, <1>1 DEF BlockTypes, GateTypes, Counting, Settled
<1>3. BlockIsEarned' /\ \A t \in Trackers : Covered(t)'
  BY <1>0 DEF BlockIsEarned, Covered, Failures
<1> QED
  BY <1>2, <1>3

\* The failure is one of the window it starts or belongs to, so that a block
\* covers as many as the tracker has counted.
LEMMA CountsFailure ==
  ASSUME GateTypes, BlockInv, NEW r \in Requests, CountFailure(r) PROVE BlockInv'
<1> DEFINE t == tracker[r]
           start == IF now - first[t] > FailWindow THEN now ELSE first[t]
<1>0. /\ UNCHANGED <<now, current, after>>
      /\ pc[r] = "counting"
      /\ pc' = [pc EXCEPT ![r] = IF todo[r] > 1 THEN "failing" ELSE after[r]]
      /\ count' = [count EXCEPT ![t] = Counted(t)]
      /\ first' = [first EXCEPT ![t] = start]
      /\ failed' = Append(failed, now)
      /\ blocked' = IF Counted(t) >= Threshold THEN Block ELSE blocked
      /\ tracker' = [tracker EXCEPT ![r] = None]
  BY DEF CountFailure, Goes
<1>1. /\ t \in Trackers /\ now \in Nat /\ failed \in Seq(Nat)
      /\ first \in [Trackers -> Nat] /\ count \in [Trackers -> Nat]
      /\ BlockTypes
  BY <1>0 DEF BlockInv, BlockTypes, Counting, Settled
<1>2. failed' \in Seq(Nat)
  BY <1>0, <1>1, LongerHistory
<1> DEFINE card(a, b) == Cardinality(InWindow(failed, a, b))
           card2(a, b) == Cardinality(InWindow(failed', a, b))
<1>3. ASSUME NEW a \in Int, NEW b \in Int
      PROVE /\ card(a, b) \in Nat /\ card2(a, b) \in Nat /\ card2(a, b) >= card(a, b)
            /\ a <= now /\ now <= b => card2(a, b) = card(a, b) + 1
            /\ (Failures(a, b))' = InWindow(failed', a, b)
  <2>1. card(a, b) \in Nat /\ card2(a, b) \in Nat
    BY <1>1, <1>2, FiniteWindow
  <2>2. card2(a, b) = card(a, b) + (IF a <= now /\ now <= b THEN 1 ELSE 0)
    BY <1>0, <1>1, LongerHistory
  <2>3. (Failures(a, b))' = InWindow(failed', a, b)
    BY <1>2 DEF Failures, InWindow
  <2> HIDE DEF card, card2
  <2> QED
    BY <2>1, <2>2, <2>3
<1>4. start \in Nat /\ start <= now /\ now - start <= FailWindow
  BY <1>1, BlockConstants DEF BlockInv, Covered
<1>5. Counted(t) \in Nat /\ Counted(t) <= card2(start, now)
  <2>1. first[t] <= now /\ card(first[t], now) >= count[t]
    BY <1>1, WindowOfFailures DEF BlockInv, Covered
  <2>2. card2(start, now) = card(start, now) + 1 /\ card(start, now) \in Nat
    <3> HIDE DEF start, card, card2
    <3>1. start \in Int /\ now \in Int /\ start <= now /\ now <= now
      BY <1>1, <1>4
    <3> QED
      BY <1>3, <3>1
  <2>3. first[t] \in Nat /\ count[t] \in Nat /\ now - first[t] \in Int /\ FailWindow \in Nat
    BY <1>1, BlockConstants
  <2> HIDE DEF card, card2
  <2>4. CASE now - first[t] > FailWindow
    BY <2>2, <2>3, <2>4 DEF Counted
  <2>5. CASE ~(now - first[t] > FailWindow)
    BY <2>1, <2>2, <2>3, <2>5 DEF Counted
  <2> QED
    BY <2>4, <2>5
<1>6. Block \in Nat
  BY <1>1, BlockConstants DEF Block
<1>7. BlockTypes'
  BY <1>0, <1>1, <1>2, <1>4, <1>5, <1>6 DEF BlockTypes
<1>8. \A q \in Requests : Counting(q)'
  BY <1>0, <1>1 DEF BlockInv, BlockTypes, GateTypes, Counting, Settled
<1>9. ASSUME NEW u \in Trackers PROVE Covered(u)'
  <2>1. CASE u = t
    <3>1. first'[u] = start /\ count'[u] = Counted(t) /\ now' = now
      BY <1>0, <1>1, <2>1
    <3>2. (Failures(first[u], now))' = InWindow(failed', start, now)
      BY <1>2, <3>1 DEF Failures, InWindow
    <3> HIDE DEF start, t
    <3> QED
      BY <1>4, <1>5, <3>1, <3>2 DEF Covered
  <2>2. CASE u # t
    <3>1. first'[u] = first[u] /\ count'[u] = count[u] /\ now' = now
      BY <1>0, <1>1, <2>2
    <3>2. (Failures(first[u], now))' = InWindow(failed', first[u], now)
      BY <1>2, <3>1 DEF Failures, InWindow
    <3>3. first[u] <= now /\ card(first[u], now) >= count[u]
      BY <1>1, <1>9, WindowOfFailures DEF BlockInv, Covered
    <3>4. first[u] \in Int /\ now \in Int /\ count[u] \in Int
      BY <1>1, <1>9
    <3>5. /\ card(first[u], now) \in Nat /\ card2(first[u], now) \in Nat
          /\ card2(first[u], now) >= card(first[u], now)
      BY <1>3, <3>4
    <3>6. card2(first[u], now) >= count[u]
      <4> HIDE DEF card, card2
      <4> QED
        BY <3>3, <3>4, <3>5
    <3> QED
      BY <3>1, <3>2, <3>3, <3>6 DEF Covered
  <2> QED
    BY <2>1, <2>2
<1>10. BlockIsEarned'
  <2>1. CASE Counted(t) >= Threshold
    <3>1. blocked' - BlockTime = now
      BY <1>0, <1>1, <2>1, BlockConstants DEF Block
    <3>2. (Failures(now - FailWindow, now))' = InWindow(failed', now - FailWindow, now)
      BY <1>0, <1>2 DEF Failures, InWindow
    <3>3. card2(start, now) <= card2(now - FailWindow, now)
      BY <1>1, <1>2, <1>4, BlockConstants, WiderWindow
    <3>4. card2(start, now) \in Nat /\ card2(now - FailWindow, now) \in Nat
      BY <1>1, <1>2, FiniteWindow
    <3>5. card2(now - FailWindow, now) >= Threshold
      <4> HIDE DEF card2, start, t
      <4> QED
        BY <1>5, <2>1, <3>3, <3>4, BlockConstants
    <3>6. (Failures(blocked - BlockTime - FailWindow, blocked - BlockTime))'
             = InWindow(failed', now - FailWindow, now)
      BY <1>2, <3>1 DEF Failures, InWindow
    <3> QED
      BY <3>5, <3>6 DEF BlockIsEarned
  <2>2. CASE ~(Counted(t) >= Threshold) /\ blocked # None
    <3> DEFINE at == blocked - BlockTime
    <3>1. blocked' = blocked
      BY <1>0, <2>2
    <3>2. at \in Int /\ at - FailWindow \in Int
      BY <1>1, <2>2, BlockConstants DEF BlockTypes
    <3>3. card(at - FailWindow, at) >= Threshold
      BY <1>1, <2>2, WindowOfFailures DEF BlockInv, BlockIsEarned
    <3>4. (Failures(blocked - BlockTime - FailWindow, blocked - BlockTime))'
             = InWindow(failed', at - FailWindow, at)
      BY <1>2, <3>1 DEF Failures, InWindow
    <3>5. /\ card(at - FailWindow, at) \in Nat /\ card2(at - FailWindow, at) \in Nat
          /\ card2(at - FailWindow, at) >= card(at - FailWindow, at)
      BY <1>3, <3>2
    <3>6. card2(at - FailWindow, at) >= Threshold
      <4> HIDE DEF card, card2, at
      <4> QED
        BY <3>3, <3>5, BlockConstants
    <3> QED
      BY <3>4, <3>6 DEF BlockIsEarned
  <2>3. CASE ~(Counted(t) >= Threshold) /\ blocked = None
    BY <1>0, <2>3 DEF BlockIsEarned
  <2> QED
    BY <2>1, <2>2, <2>3
<1> QED
  BY <1>7, <1>8, <1>9, <1>10 DEF BlockInv

(***************************************************************************)
(* An address is blocked for what it did within one window, however its    *)
(* trackers are made, lost and started again (ipblock.go:133-178).         *)
(***************************************************************************)
THEOREM BlocksAreEarned == Spec => []BlockIsEarned
<1>1. Init => BlockInv
  <2> SUFFICES ASSUME Init PROVE BlockInv
    OBVIOUS
  <2>1. failed = <<>> /\ now = 0 /\ failed \in Seq(Nat)
    BY DEF Init, GateInit
  <2>2. BlockTypes /\ \A r \in Requests : Counting(r)
    BY <2>1 DEF Init, GateInit, BlockTypes, Counting, Settled
  <2>3. BlockIsEarned
    BY DEF Init, GateInit, BlockIsEarned
  <2>4. ASSUME NEW t \in Trackers PROVE Covered(t)
    <3>1. Cardinality(Failures(first[t], now)) \in Nat
      BY <2>1, WindowOfFailures, FiniteWindow
    <3> QED
      BY <3>1 DEF Init, GateInit, Covered
  <2> QED
    BY <2>2, <2>3, <2>4 DEF BlockInv
<1>2. ASSUME GateInv, BlockInv, [Next]_vars PROVE BlockInv'
  <2>1. GateTypes
    BY <1>2 DEF GateInv
  <2>2. CASE UNCHANGED gateVars
    BY <1>2, <2>2, AwayCleanup, StayingAway
  <2>3. CASE CleanupNonces \/ CleanupTokens
    BY <1>2, <2>3, AwayCleanup, StayingAway
  <2>4. CASE CleanupBlocks \/ CleanupTrackers
    BY <1>2, <2>1, <2>4, ForgetSteps, Forgetting
  <2>5. CASE Tick
    BY <1>2, <2>5, TicksCover
  <2>6. ASSUME NEW r \in Requests, SignedStep(r) \/ AnyStep(r) \/ TokenStep(r) \/ AccountStep(r)
        PROVE BlockInv'
    BY <1>2, <2>1, <2>6, AwaySigned, AwayAny, AwayToken, AwayAccount, StayingAway
  <2>7. ASSUME NEW r \in Requests, BlockStep(r) PROVE BlockInv'
    BY <1>2, <2>1, <2>7, ForgetSteps, Forgetting, LoadsTracker, StoresTracker, CountsFailure
       DEF BlockStep
  <2> QED
    BY <1>2, <2>2, <2>3, <2>4, <2>5, <2>6, <2>7 DEF Next, vars, GateNext
<1>3. BlockInv => BlockIsEarned
  BY DEF BlockInv
<1> QED
  BY <1>1, <1>2, <1>3, Invariant, PTL DEF Spec

(***************************************************************************)
(* What a request has read and what was written since.  A base is fixed    *)
(* when the request writes, so that two of them show who came first.       *)
(***************************************************************************)
BaseInv ==
  /\ DOMAIN base = Requests /\ DOMAIN copy = Requests /\ written \subseteq Requests
  /\ \A r \in Requests :
       /\ base[r] \subseteq written
       /\ Op(r) = "receive" => base[r] = {}
       /\ step[r] \in {"address", "subnet"} => Op(r) = "rate"
       /\ step[r] = "upsert" => Op(r) \in {"rate", "receive"}
  /\ \A r \in written : step[r] = "done"

\* A step of a handler of r, as far as others can see it.
Advances(r) ==
  /\ UNCHANGED <<arrival, user>>
  /\ r \notin written
  /\ written' = written \/ (written' = written \cup {r} /\ step'[r] = "done")
  /\ \A q \in Requests \ {r} : step'[q] = step[q] /\ base'[q] = base[q] /\ copy'[q] = copy[q]

LEMMA HandlersAdvance ==
  ASSUME RowTypes, BaseInv, NEW r \in Requests, Handle(r), UNCHANGED gateVars
  PROVE  Advances(r) /\ BaseInv'
<1>0. /\ UNCHANGED <<arrival, user>> /\ DOMAIN step = Requests
      /\ \A q \in Requests : Op(q)' = Op(q)
  BY DEF gateVars, requestVars, RowTypes, Op
<1>1. Advances(r)
  BY <1>0 DEF Advances, BaseInv, Handle, Moves, Reject, Create, Open, Update,
       UpdatePlaylistConfig, Delete, DeleteByHand, Read, SubmitRating, ReceiveFederatedRating,
       LookStation, CheckIPv6Duplicate, CheckSubnetDuplicate, UpsertRating,
       SubmitFederatedRating, ForwardRating
<1>2. /\ DOMAIN base' = Requests /\ DOMAIN copy' = Requests
      /\ base'[r] = base[r] \/ (base'[r] = written /\ written' = written /\ Op(r) # "receive")
      /\ step'[r] \in {"address", "subnet"} => Op(r) = "rate"
      /\ step'[r] = "upsert" => Op(r) \in {"rate", "receive"}
  BY <1>0 DEF BaseInv, Handle, Moves, Reject, Create, Open, Update, Has,
       UpdatePlaylistConfig, Delete, DeleteByHand, Read, SubmitRating, ReceiveFederatedRating,
       LookStation, CheckIPv6Duplicate, CheckSubnetDuplicate, UpsertRating,
       SubmitFederatedRating, ForwardRating
<1>3. written' \subseteq Requests /\ written \subseteq written'
  BY <1>1 DEF Advances, BaseInv
<1>4. ASSUME NEW q \in Requests
      PROVE /\ base'[q] \subseteq written'
            /\ Op(q)' = "receive" => base'[q] = {}
            /\ step'[q] \in {"address", "subnet"} => Op(q)' = "rate"
            /\ step'[q] = "upsert" => Op(q)' \in {"rate", "receive"}
  BY <1>0, <1>1, <1>2, <1>3 DEF Advances, BaseInv
<1>5. \A q \in written' : step'[q] = "done"
  BY <1>1 DEF Advances, BaseInv
<1> QED
  BY <1>1, <1>2, <1>3, <1>4, <1>5 DEF BaseInv

\* So the base of a request that has written stays.
LEMMA BasesStay ==
  ASSUME BaseInv, NEW r \in Requests, Advances(r)
  PROVE  written \subseteq written' /\ \A q \in written : base'[q] = base[q]
  BY DEF Advances, BaseInv

(***************************************************************************)
(* Updates.  What a request read of an earlier update of the station is    *)
(* that update, or one that has overtaken it.                              *)
(***************************************************************************)
Updates(r) == Op(r) = "update"
Fields(r) == arrival[r].act.fields

Overtaken(r, f) ==
  \E q \in written \ {r} :
    /\ Op(q) = "update" /\ Id(q) = Id(r) /\ q \notin base[r]
    /\ f \in arrival[q].act.fields \/ r \notin base[q]

Stands(row, r) == \A f \in Fields(r) : row[f] = r \/ Overtaken(r, f)

UpdateInv ==
  /\ \A r \in Requests : Updates(r) /\ (step[r] = "writing" \/ r \in written) => Id(r) < nextId
  /\ \A r \in Requests : Updates(r) /\ step[r] = "writing" =>
       \A p \in base[r] : Updates(p) /\ Id(p) = Id(r) => Stands(copy[r], p)
  /\ \A r \in written : Updates(r) /\ Station(r) # None => Stands(Station(r), r)

LEMMA FieldFacts ==
  ASSUME RowTypes, NEW r \in Requests
  PROVE  Fields(r) \subseteq {"name", "private"}
<1>1. arrival[r] \in ArrivalType
  BY Constants DEF RowTypes
<1>2. arrival[r].act \in Act
  BY <1>1, StationsAssumption DEF ArrivalType
<1> QED
  BY <1>2 DEF Act, Fields

LEMMA StaysOvertaken ==
  ASSUME BaseInv, NEW r \in Requests, Advances(r), NEW p \in written, NEW f, Overtaken(p, f)
  PROVE  Overtaken(p, f)'
<1>1. PICK q \in written \ {p} :
        /\ Op(q) = "update" /\ Id(q) = Id(p) /\ q \notin base[p]
        /\ f \in arrival[q].act.fields \/ p \notin base[q]
  BY DEF Overtaken
<1>2. q \in written' /\ base'[q] = base[q] /\ base'[p] = base[p]
  BY BasesStay
<1>3. UNCHANGED <<Op(q), Id(q), Id(p), arrival>>
  BY DEF Advances, Op, Id
<1> QED
  BY <1>1, <1>2, <1>3 DEF Overtaken

LEMMA StillStands ==
  ASSUME BaseInv, NEW r \in Requests, Advances(r), NEW p \in written, NEW row, Stands(row, p)
  PROVE  \A f \in Fields(p)' : row[f] = p \/ Overtaken(p, f)'
<1>1. Fields(p)' = Fields(p)
  BY DEF Advances, Fields
<1> QED
  BY <1>1, StaysOvertaken DEF Stands

\* A step that writes no column others have asked for.
Spares(r) ==
  /\ nextId <= nextId' /\ nextId \in Nat /\ nextId' \in Nat
  /\ \A i \in Ids : i < nextId /\ rows'[i] # None =>
       /\ rows[i] # None
       /\ \A f \in {"name", "private"} : rows'[i][f] = rows[i][f]
  /\ written' = written \/ ~Updates(r)
  /\ step'[r] = "writing" =>
       /\ copy'[r] = Station(r) /\ Station(r) # None
       /\ base'[r] = written

LEMMA Sparing ==
  ASSUME RowInv, BaseInv, UpdateInv, NEW r \in Requests, Advances(r), BaseInv', Spares(r)
  PROVE  UpdateInv'
<1>0. \A q \in Requests : /\ Id(q)' = Id(q) /\ (Updates(q)' <=> Updates(q))
                          /\ Id(q) \in Ids /\ Id(q) \in Nat
                          /\ Fields(q)' = Fields(q) /\ Fields(q) \subseteq {"name", "private"}
  BY FieldFacts, ActFacts DEF RowInv, Advances, Id, Updates, Op, Fields
<1>1. ASSUME NEW q \in Requests, Updates(q)', step'[q] = "writing" \/ q \in written'
      PROVE  Id(q)' < nextId'
  <2>1. Id(q) < nextId
    <3>1. CASE q = r /\ step'[q] = "writing"
      BY <1>0, <3>1 DEF Spares, RowInv, Station
    <3>2. CASE q # r \/ q \in written'
      BY <1>0, <1>1, <3>2 DEF UpdateInv, Advances, Spares
    <3> QED
      BY <1>1, <3>1, <3>2
  <2> QED
    BY <1>0, <2>1 DEF Spares
<1>2. ASSUME NEW q \in Requests, Updates(q)', step'[q] = "writing",
             NEW p \in base'[q], Updates(p)', Id(p)' = Id(q)'
      PROVE  Stands(copy[q], p)'
  <2>1. p \in written /\ p \in Requests
    BY <1>2, BasesStay DEF Spares, Advances, BaseInv
  <2>2. Stands(copy'[q], p)
    <3>1. CASE q = r
      BY <1>0, <1>2, <2>1, <3>1 DEF Spares, UpdateInv, Station
    <3>2. CASE q # r
      BY <1>0, <1>2, <2>1, <3>2 DEF UpdateInv, Advances
    <3> QED
      BY <3>1, <3>2
  <2> QED
    BY <2>1, <2>2, StillStands DEF Stands
<1>3. ASSUME NEW q \in written', Updates(q)', Station(q)' # None
      PROVE  Stands(Station(q), q)'
  <2>1. q \in written /\ q \in Requests
    BY <1>0, <1>3 DEF Spares, Advances, BaseInv
  <2>2. Id(q) < nextId /\ Station(q)' = rows'[Id(q)]
    BY <1>0, <1>3, <2>1 DEF UpdateInv, Station
  <2>3. Station(q) # None /\ \A f \in Fields(q) : Station(q)'[f] = Station(q)[f]
    BY <1>0, <1>3, <2>1, <2>2 DEF Spares, Station
  <2>4. Stands(Station(q)', q)
    BY <1>0, <1>3, <2>1, <2>3 DEF UpdateInv, Stands
  <2> QED
    BY <2>1, <2>4, StillStands DEF Stands
<1> QED
  BY <1>1, <1>2, <1>3 DEF UpdateInv

LEMMA SpareSteps ==
  ASSUME RowInv, BaseInv, NEW r \in Requests, Handle(r), ~Update(r), UNCHANGED gateVars
  PROVE  Spares(r)
<1>0. /\ DOMAIN step = Requests /\ DOMAIN rows = Ids /\ Id(r) \in Ids /\ nextId \in Nat
      /\ DOMAIN copy = Requests /\ DOMAIN base = Requests
      /\ \A i \in Ids : i < nextId => i # nextId
  BY ActFacts DEF RowInv, RowTypes, BaseInv, Ids
<1> USE DEF Spares, Moves
<1>1. CASE Reject(r) \/ Read(r) \/ SubmitFederatedRating(r) \/ ForwardRating(r)
  BY <1>0, <1>1 DEF Reject, Read, SubmitFederatedRating, ForwardRating
<1>2. CASE Create(r)
  <2>1. Op(r) = "create" /\ step'[r] = "done"
    BY <1>0, <1>2 DEF Create, Has
  <2>2. \A i \in Ids : i < nextId => rows'[i] = rows[i]
    BY <1>0, <1>2 DEF Create, NextFree
  <2>3. nextId' \in Nat /\ nextId <= nextId'
    BY <1>0, <1>2 DEF Create
  <2> QED
    BY <1>0, <2>1, <2>2, <2>3 DEF Updates
<1>3. CASE Open(r)
  BY <1>0, <1>3 DEF Open, NotFound, Forbidden
<1>4. CASE UpdatePlaylistConfig(r)
  BY <1>0, <1>4 DEF UpdatePlaylistConfig, Writes, Updates, Station, NotFound
<1>5. CASE Delete(r) \/ DeleteByHand(r)
  BY <1>0, <1>5 DEF Delete, DeleteByHand, Updates, Has
<1>6. CASE SubmitRating(r) \/ ReceiveFederatedRating(r)
  BY <1>0, <1>6 DEF SubmitRating, ReceiveFederatedRating, LookStation
<1>7. CASE CheckIPv6Duplicate(r) \/ CheckSubnetDuplicate(r)
  BY <1>0, <1>7 DEF CheckIPv6Duplicate, CheckSubnetDuplicate
<1>8. CASE UpsertRating(r)
  BY <1>0, <1>8 DEF UpsertRating, Updates, BaseInv
<1> QED
  BY <1>1, <1>2, <1>3, <1>4, <1>5, <1>6, <1>7, <1>8 DEF Handle

\* An update overtakes those that it has not read.
LEMMA UpdatesColumns ==
  ASSUME RowInv, BaseInv, UpdateInv, NEW r \in Requests, Advances(r), Update(r)
  PROVE  UpdateInv'
<1>0. /\ UNCHANGED <<arrival, nextId, copy, base>> /\ written' = written \cup {r}
      /\ step[r] = "writing" /\ step'[r] = "done" /\ Updates(r) /\ r \notin written
      /\ \A q \in Requests \ {r} : step'[q] = step[q]
      /\ written \subseteq Requests
  BY DEF Update, Moves, RowInv, RowTypes, Updates, BaseInv, Advances
<1>1. \A q \in Requests : /\ Id(q)' = Id(q) /\ (Updates(q)' <=> Updates(q))
                          /\ Id(q) \in Ids
                          /\ Fields(q)' = Fields(q) /\ Fields(q) \subseteq {"name", "private"}
  BY <1>0, FieldFacts, ActFacts DEF RowInv, Id, Updates, Op, Fields
<1>2. ASSUME NEW q \in Requests, Updates(q)', step'[q] = "writing" \/ q \in written'
      PROVE  Id(q)' < nextId'
  BY <1>0, <1>1, <1>2 DEF UpdateInv
<1>3. ASSUME NEW q \in Requests, Updates(q)', step'[q] = "writing",
             NEW p \in base'[q], Updates(p)', Id(p)' = Id(q)'
      PROVE  Stands(copy[q], p)'
  <2>1. p \in written /\ p \in Requests /\ q # r
    BY <1>0, <1>3 DEF BaseInv
  <2>2. Stands(copy[q], p)
    BY <1>0, <1>1, <1>3, <2>1 DEF UpdateInv
  <2> QED
    BY <1>0, <2>1, <2>2, StillStands DEF Stands
<1>4. ASSUME NEW q \in written', Updates(q)', Station(q)' # None
      PROVE  Stands(Station(q), q)'
  <2>1. q \in Requests /\ q \in written'
    BY <1>0, <1>4
  <2>2. CASE Id(q) # Id(r)
    <3>1. q \in written /\ Station(q)' = Station(q)
      BY <1>0, <1>1, <1>4, <2>2 DEF Update, Writes, Station, RowInv, RowTypes
    <3>2. Stands(Station(q)', q)
      BY <1>1, <1>4, <2>1, <3>1 DEF UpdateInv
    <3> QED
      BY <3>1, <3>2, StillStands DEF Stands
  <2>3. CASE Id(q) = Id(r)
    <3>1. ASSUME NEW f \in Fields(q)
          PROVE  Station(q)'[f] = q \/ Overtaken(q, f)'
      <4>1. Station(q)'[f] = Merged(r, f)
        <5>1. Station(q)' = [owner |-> Station(r).owner, mount |-> Station(r).mount,
                             name |-> Merged(r, "name"), private |-> Merged(r, "private"),
                             playlist |-> Station(r).playlist]
          BY <1>0, <1>1, <1>4, <2>1, <2>3
             DEF Update, Writes, Station, RowInv, RowTypes, NotFound
        <5>2. f = "name" \/ f = "private"
          BY <1>1, <2>1, <3>1
        <5> QED
          BY <5>1, <5>2
      <4>2. CASE q = r
        BY <4>1, <4>2, <3>1 DEF Merged, Fields
      <4>3. CASE q # r /\ (f \in Fields(r) \/ q \notin base[r])
        <5>1. r \notin base[q]
          BY <1>0, <2>1 DEF BaseInv
        <5>2. r \in written' \ {q} /\ Op(r)' = "update" /\ Id(r)' = Id(q)'
          BY <1>0, <1>1, <2>1, <2>3, <4>3 DEF Updates
        <5> QED
          BY <1>0, <1>1, <4>3, <5>1, <5>2 DEF Overtaken, Fields
      <4>4. CASE q # r /\ f \notin Fields(r) /\ q \in base[r]
        <5>1. q \in written /\ Stands(copy[r], q)
          BY <1>0, <1>1, <1>4, <2>1, <2>3, <4>4 DEF UpdateInv
        <5>2. Merged(r, f) = copy[r][f]
          BY <4>4 DEF Merged, Fields
        <5>3. copy[r][f] = q \/ Overtaken(q, f)
          BY <3>1, <5>1 DEF Stands
        <5> QED
          BY <4>1, <5>1, <5>2, <5>3, StaysOvertaken
      <4> QED
        BY <4>2, <4>3, <4>4
    <3> QED
      BY <1>1, <2>1, <3>1 DEF Stands
  <2> QED
    BY <2>2, <2>3
<1> QED
  BY <1>2, <1>3, <1>4 DEF UpdateInv

(***************************************************************************)
(* Votes.  A request that is about to vote has not seen the vote of        *)
(* another user from its address: either there was none, or it did not     *)
(* look.                                                                   *)
(***************************************************************************)
Compared(r) ==
  \A v \in Others(r) :
    LET b == votes[Id(r)][v] IN b # None /\ b.from = From(r) => b.by \notin base[r]

VoteInv ==
  /\ \A i \in Ids, u \in Users : votes[i][u] # None => votes[i][u].by \in written
  /\ \A r \in Requests : step[r] = "upsert" => Compared(r)
  /\ OneVotePerAddress

\* A step that changes no vote.
LEMMA KeepsVotes ==
  ASSUME RowInv, BaseInv, VoteInv, NEW r \in Requests, Advances(r),
         UNCHANGED votes, step'[r] = "upsert" => Compared(r)'
  PROVE  VoteInv'
<1>1. ASSUME NEW i \in Ids, NEW u \in Users, votes'[i][u] # None
      PROVE  votes'[i][u].by \in written'
  BY <1>1, BasesStay DEF VoteInv
<1>2. ASSUME NEW q \in Requests, step'[q] = "upsert" PROVE Compared(q)'
  <2>1. CASE q = r
    BY <1>2, <2>1
  <2>2. CASE q # r
    <3>1. Compared(q)
      BY <1>2, <2>2 DEF Advances, VoteInv
    <3> QED
      BY <2>2, <3>1 DEF Advances, Compared, Others, Actor, From, Id, Op
  <2> QED
    BY <2>1, <2>2
<1>3. OneVotePerAddress'
  <2> SUFFICES ASSUME NEW i \in Ids, NEW u \in Users, NEW v \in Users, u # v,
                      votes[i][u] # None, votes[i][v] # None,
                      votes[i][u].from = Here, votes[i][v].from = Here
               PROVE  /\ votes[i][u].by \notin base'[votes[i][v].by]
                      /\ votes[i][v].by \notin base'[votes[i][u].by]
    BY DEF OneVotePerAddress
  <2>1. votes[i][u].by \in written /\ votes[i][v].by \in written
    BY DEF VoteInv
  <2>2. /\ votes[i][u].by \notin base[votes[i][v].by]
        /\ votes[i][v].by \notin base[votes[i][u].by]
    BY DEF VoteInv, OneVotePerAddress
  <2> QED
    BY <2>1, <2>2, BasesStay
<1> QED
  BY <1>1, <1>2, <1>3 DEF VoteInv

LEMMA VoteSteps ==
  ASSUME RowInv, BaseInv, NEW r \in Requests, Handle(r), ~UpsertRating(r),
         Advances(r), BaseInv', UNCHANGED gateVars
  PROVE  UNCHANGED votes /\ (step'[r] = "upsert" => Compared(r)')
<1>0. /\ DOMAIN step = Requests /\ DOMAIN base = Requests /\ UNCHANGED <<arrival, user>>
      /\ Op(r)' = Op(r)
  BY ActFacts DEF RowInv, RowTypes, BaseInv, Advances, Op
<1>1. UNCHANGED votes
  BY DEF Handle, Reject, Create, Open, Update, UpdatePlaylistConfig, Delete, DeleteByHand, Read,
       SubmitRating, ReceiveFederatedRating, LookStation, CheckIPv6Duplicate,
       CheckSubnetDuplicate, SubmitFederatedRating, ForwardRating
<1>2. ASSUME step'[r] = "upsert" PROVE Compared(r)'
  <2>1. ReceiveFederatedRating(r) \/ CheckSubnetDuplicate(r)
    BY <1>0, <1>2 DEF Handle, Moves, Reject, Create, Open, Update, UpdatePlaylistConfig, Delete,
       DeleteByHand, Read, SubmitRating, LookStation, CheckIPv6Duplicate,
       SubmitFederatedRating, ForwardRating
  <2>2. CASE ReceiveFederatedRating(r)
    <3>1. Op(r) = "receive"
      BY <2>2 DEF ReceiveFederatedRating, LookStation, Has
    <3> QED
      BY <1>0, <3>1 DEF BaseInv, Compared
  <2>3. CASE CheckSubnetDuplicate(r)
    <3>1. ~\E u \in Others(r) : /\ votes[Id(r)][u] # None
                                /\ Subnet[votes[Id(r)][u].from] = Subnet[From(r)]
      BY <1>0, <1>2, <2>3 DEF CheckSubnetDuplicate, Moves
    <3>2. UNCHANGED <<Others(r), Id(r), From(r)>>
      BY <1>0 DEF Others, Actor, Id, From, Op
    <3> QED
      BY <1>1, <3>1, <3>2 DEF Compared
  <2> QED
    BY <2>1, <2>2, <2>3
<1> QED
  BY <1>1, <1>2

LEMMA Votes ==
  ASSUME RowInv, BaseInv, VoteInv, NEW r \in Requests, Advances(r), UpsertRating(r)
  PROVE  VoteInv'
<1> DEFINE vote == [from |-> From(r), by |-> r]
<1>0. /\ UNCHANGED <<arrival, user, base>> /\ written' = written \cup {r} /\ r \notin written
      /\ step[r] = "upsert" /\ step'[r] = "done" /\ Id(r) \in Ids
      /\ \A q \in Requests \ {r} : step'[q] = step[q]
      /\ votes' = [votes EXCEPT ![Id(r)][Actor(r)] = vote]
      /\ vote.from = From(r) /\ vote.by = r
  BY ActFacts DEF UpsertRating, Moves, RowInv, RowTypes, Advances
<1>1. PICK V : votes \in [Ids -> [Users -> V]]
  BY DEF RowInv, RowTypes
<1> HIDE DEF vote
<1>2. ASSUME NEW i \in Ids, NEW u \in Users
      PROVE  \/ votes'[i][u] = votes[i][u]
             \/ i = Id(r) /\ u = Actor(r) /\ votes'[i][u] = vote
  BY <1>0, <1>1, <1>2
<1>3. ASSUME NEW i \in Ids, NEW u \in Users, votes'[i][u] # None
      PROVE  votes'[i][u].by \in written'
  BY <1>0, <1>2, <1>3 DEF VoteInv
<1>4. ASSUME NEW q \in Requests, step'[q] = "upsert" PROVE Compared(q)'
  <2>1. q # r /\ Compared(q) /\ Id(q) \in Ids
    BY <1>0, <1>4, ActFacts DEF VoteInv, RowInv
  <2>2. UNCHANGED <<Others(q), Id(q), From(q), base>>
    BY <1>0 DEF Others, Actor, Id, From, Op
  <2>3. ASSUME NEW v \in Others(q), votes'[Id(q)][v] # None, votes'[Id(q)][v].from = From(q)
        PROVE  votes'[Id(q)][v].by \notin base[q]
    <3>1. v \in Users
      BY DEF Others
    <3>2. CASE votes'[Id(q)][v] = votes[Id(q)][v]
      BY <2>1, <2>3, <3>2 DEF Compared
    <3>3. CASE votes'[Id(q)][v] = vote
      BY <1>0, <2>1, <3>3 DEF BaseInv
    <3> QED
      BY <1>2, <2>1, <3>1, <3>2, <3>3
  <2> QED
    BY <2>2, <2>3 DEF Compared
<1>5. Compared(r) /\ From(r) = From(r)
  BY <1>0 DEF VoteInv
<1>6. ASSUME NEW v \in Users, v # Actor(r), votes[Id(r)][v] # None,
             votes[Id(r)][v].from = From(r)
      PROVE  /\ votes[Id(r)][v].by \notin base[r] /\ r \notin base[votes[Id(r)][v].by]
  <2>1. votes[Id(r)][v].by \in Requests
    BY <1>0, <1>6 DEF VoteInv, BaseInv
  <2> QED
    BY <1>0, <1>5, <1>6, <2>1 DEF Compared, Others, BaseInv
<1>7. OneVotePerAddress'
  <2> SUFFICES ASSUME NEW i \in Ids, NEW u \in Users, NEW v \in Users, u # v,
                      votes'[i][u] # None, votes'[i][v] # None,
                      votes'[i][u].from = Here, votes'[i][v].from = Here
               PROVE  /\ votes'[i][u].by \notin base[votes'[i][v].by]
                      /\ votes'[i][v].by \notin base[votes'[i][u].by]
    BY <1>0 DEF OneVotePerAddress
  <2>1. CASE votes'[i][u] = votes[i][u] /\ votes'[i][v] = votes[i][v]
    BY <2>1 DEF VoteInv, OneVotePerAddress
  <2>2. CASE i = Id(r) /\ u = Actor(r) /\ votes'[i][u] = vote /\ votes'[i][v] = votes[i][v]
    BY <1>0, <1>6, <2>2
  <2>3. CASE i = Id(r) /\ v = Actor(r) /\ votes'[i][v] = vote /\ votes'[i][u] = votes[i][u]
    BY <1>0, <1>6, <2>3
  <2> QED
    BY <1>2, <2>1, <2>2, <2>3
<1> QED
  BY <1>3, <1>4, <1>7 DEF VoteInv

(***************************************************************************)
(* The gate disturbs none of this.                                         *)
(***************************************************************************)
WriteInv == BaseInv /\ UpdateInv /\ VoteInv

LEMMA GateSpares ==
  ASSUME RowInv, Keeps, UNCHANGED rowVars, WriteInv PROVE WriteInv'
<1>0. UNCHANGED <<arrival, step, rows, nextId, votes, copy, written, base>>
  BY DEF Keeps, rowVars
<1>1. BaseInv' /\ UpdateInv'
  BY <1>0 DEF WriteInv, BaseInv, UpdateInv, Updates, Stands, Overtaken, Fields, Op, Id, Station
<1>2. ASSUME NEW q \in Requests, step[q] = "upsert" PROVE Compared(q)'
  <2>1. Handled(q)
    BY <1>2 DEF RowInv, Voting
  <2>2. Actor(q)' = Actor(q)
    BY <1>0, <2>1 DEF Handled, Keeps, Actor, Op
  <2> QED
    BY <1>0, <1>2, <2>2 DEF WriteInv, VoteInv, Compared, Others, From, Id, Op
<1>3. VoteInv'
  BY <1>0, <1>2 DEF WriteInv, VoteInv, OneVotePerAddress
<1> QED
  BY <1>1, <1>3 DEF WriteInv

LEMMA WritesInductive ==
  ASSUME GateInv, RowInv, WriteInv, [Next]_vars PROVE WriteInv'
<1>1. CASE [GateNext]_gateVars /\ UNCHANGED rowVars
  BY <1>1, GateKeeps, GateSpares DEF RowInv, GateInv
<1>2. ASSUME NEW r \in Requests, Handle(r), UNCHANGED gateVars PROVE WriteInv'
  <2>1. RowInv /\ BaseInv /\ UpdateInv /\ VoteInv /\ RowTypes
    BY DEF WriteInv, RowInv
  <2>2. Advances(r) /\ BaseInv'
    BY <1>2, <2>1, HandlersAdvance
  <2>3. UpdateInv'
    BY <1>2, <2>1, <2>2, UpdatesColumns, SpareSteps, Sparing
  <2>4. VoteInv'
    BY <1>2, <2>1, <2>2, Votes, VoteSteps, KeepsVotes
  <2> QED
    BY <2>2, <2>3, <2>4 DEF WriteInv
<1> QED
  BY <1>1, <1>2 DEF Next, vars

LEMMA WriteInvariant == Spec => []WriteInv
<1>1. Init => WriteInv
  BY DEF Init, WriteInv, BaseInv, UpdateInv, VoteInv, OneVotePerAddress
<1> QED
  BY <1>1, WritesInductive, RowInvariant, PTL DEF Spec

(***************************************************************************)
(* What an update has asked for is lost only to a later update that asks   *)
(* for the same column or had read before (stations.go:616, 713).          *)
(***************************************************************************)
THEOREM LostUpdatesOverlap == Spec => []LostUpdateNeedsOverlap
<1>1. WriteInv => LostUpdateNeedsOverlap
  BY DEF WriteInv, UpdateInv, LostUpdateNeedsOverlap, Stands, Overtaken, Updates, Fields
<1> QED
  BY <1>1, WriteInvariant, PTL

(***************************************************************************)
(* Two users at one address both have a vote on a station only if neither  *)
(* vote was there when the other was compared (ratings.go:171-197).        *)
(***************************************************************************)
THEOREM AddressesVoteOnce == Spec => []OneVotePerAddress
<1>1. WriteInv => OneVotePerAddress
  BY DEF WriteInv, VoteInv
<1> QED
  BY <1>1, WriteInvariant, PTL
===============================================================================
