---------------------------- MODULE MCCommentSync ----------------------------
(***************************************************************************)
(* Instances of CommentSync for TLC: a comment, alone or with a reply to    *)
(* it.                                                                      *)
(***************************************************************************)
EXTENDS CommentSync

CONSTANTS root, reply, RootText

MCParent == [c \in Comments |-> IF c = reply THEN root ELSE None]
MCMaxText == [c \in Comments |-> IF c = reply THEN 1 ELSE RootText]
=============================================================================
