--------------------------- MODULE MCRoomManager ---------------------------
(* Small instances of RoomManager: alice has two tabs, bob one.            *)
EXTENDS RoomManager, TLC

CONSTANTS s1, s2, s3, alice, bob, r1, r2

TwoTabs == (s1 :> alice) @@ (s2 :> alice) @@ (s3 :> bob)
OneTabEach == (s1 :> alice) @@ (s3 :> bob)

RoomSymmetry == Permutations(Rooms)

=============================================================================
