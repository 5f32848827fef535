------------------------------ MODULE MC_Paging ------------------------------
(* Instances of Paging for TLC. *)
EXTENDS Paging

CONSTANTS me, ann, bob

\* Ann and Bob may be friends of the reader's, and Bob one of Ann's.
Triangle == {<<me, ann>>, <<me, bob>>, <<ann, bob>>}

\* What friends and their friends may see of Bob's, and what friends only.
Posts == [author : {bob}, wide : BOOLEAN] \cup [author : {me, ann}, wide : {FALSE}]

\* Pages of one row, whose cursor moves at every request, and longer ones.
OneOrTwo == 1 .. 2
=============================================================================
