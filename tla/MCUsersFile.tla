---------------------------- MODULE MCUsersFile ----------------------------
(***************************************************************************)
(* UsersFile for TLC: a person whose name differs between Slack and        *)
(* Bitbucket, and an app with a name of its own.                           *)
(***************************************************************************)
EXTENDS UsersFile, TLC

CONSTANTS alice, app, n1, n2, n3

Everybody == {alice, app}
OwnNames == (alice :> {n1, n2}) @@ (app :> {n3})
============================================================================
