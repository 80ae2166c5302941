------------------------------ MODULE MCTrading ------------------------------
(* Two Privy users; the first may come with a second wallet.                 *)
EXTENDS Trading, TLC

CONSTANTS d1, d2, alice, bob, carol, o1

MCTokens == {<<d1, alice>>, <<d1, carol>>, <<d2, bob>>}
NoRows == [x \in Wallets |-> NoUser]
Both == [NoRows EXCEPT ![alice] = User(d1), ![bob] = User(d2)]
Legacy == [NoRows EXCEPT ![alice] = [User(d1) EXCEPT !.did = None]]
MCOwnerOf == (o1 :> alice)
MCMaxParam == ("tick" :> 3) @@ ("fee" :> 1)
Offer(ops, by, start) == [ops |-> ops, by |-> by, start |-> start]
MCOffers == {
    Offer({"login"}, Wallets, NoRows),
    Offer({"login", "rename"}, Wallets, Legacy),
    Offer({"follow", "unfollow"}, {alice}, Both),
    Offer({"rename"}, {alice, bob}, Both),
    Offer({"login", "store"}, {alice}, NoRows),
    Offer({"store", "submit", "cancel"}, {alice}, Both),
    Offer({"prepare"}, {alice}, Both),
    Offer({"approve", "status"}, {alice}, Both),
    Offer({"deploy"}, {alice}, NoRows)}
=============================================================================
