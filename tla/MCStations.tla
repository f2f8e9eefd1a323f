------------------------------ MODULE MCStations ------------------------------
(* Stations for TLC: each behaviour is of one kind of three requests.        *)
EXTENDS Stations, TLC

CONSTANTS r1, r2, r3, m1, m2, n1, n2, other, node

Nothing == [op |-> "none", id |-> 1, mount |-> Mount, fields |-> {}, from |-> Here,
            voter |-> Key]
Does(op, id) == [Nothing EXCEPT !.op = op, !.id = id]
Asks(f) == [Does("update", 1) EXCEPT !.fields = f]
Sends == [Does("receive", 1) EXCEPT !.from = node, !.voter = r1]

\* A request that brings nothing, one that is signed, one of a user, and one
\* no gate is asked about.
Plain == [sign |-> None, cookie |-> None, key |-> None, token |-> None,
          want |-> "read", as |-> None, act |-> Nothing]
Signed(n) == [Plain EXCEPT !.sign = n]
Of(u, want) == [Plain EXCEPT !.as = u, !.want = want]
By(u, act) == [Plain EXCEPT !.as = u, !.want = "post", !.act = act]
Ungated(act) == [Plain EXCEPT !.want = "ungated", !.act = act]
Cookie == [Plain EXCEPT !.cookie = Known]
Wrong == [Plain EXCEPT !.cookie = Bad, !.key = Bad]
Spends(a) == [a EXCEPT !.want = "post", !.token = r1, !.act = Does("forward", 1)]
Idle == Of(Known, "read")

Three(a, b, c) == r1 :> a @@ r2 :> b @@ r3 :> c

SameMessage ==     \* the same message twice, genuine or not, or in two spellings
  {Three(Signed(n1), Signed(n1), Idle), Three(Signed(n2), Signed(n2), Idle),
   Three(Signed(n1), Signed(other), Idle)}
Credentials ==
  {Three(Wrong, Wrong, Idle), Three(Wrong, Signed(Bad), Plain),
   Three(Cookie, Plain, Idle)}
Accounts ==
  {Three([Plain EXCEPT !.want = "register"], [Plain EXCEPT !.want = "login", !.key = r1],
         [Plain EXCEPT !.want = "logout", !.cookie = r2, !.key = r1])}
OneToken ==
  {Three(Of(Known, "token"), Spends(Cookie), Spends(Cookie)),
   Three(Of(Key, "token"), Spends(Signed(n1)), Of(Key, "logout"))}
Votes ==
  {Three(By(r1, Does("rate", 1)), By(Key, Does("rate", 1)), Ungated(Sends)),
   Three(By(r1, Does("rate", 1)), By(Key, Does("rate", 1)), By(r1, Does("rate", 1)))}
Updates ==
  {Three(By(Known, Asks({"name"})), By(Known, Asks({"private"})), By(Known, Asks({"name"}))),
   Three(By(Known, Asks({"name"})), By(Known, Does("playlist", 1)),
         By(Known, Does("delete", 1)))}
Reuse ==
  {Three(By(Known, Does("delete", 1)), By(Key, Does("create", 1)), By(Key, Does("rate", i))) :
     i \in 1 .. 2}
  \cup {Three(Ungated(Does("cli", 1)), By(Key, Does("create", 1)),
              By(Key, Does("read", 1)))}

Scenarios ==
  SameMessage \cup Credentials \cup Accounts \cup OneToken \cup Votes \cup Updates \cup Reuse

AllActs == {a[r].act : a \in Scenarios, r \in {r1, r2, r3}}
Spelled == n1 :> m1 @@ other :> m1 @@ n2 :> m2
Stamped == m1 :> 0 @@ m2 :> 1
Subnets == Here :> Here @@ node :> node
===============================================================================
