------------------------------- MODULE UrlIds -------------------------------
(***************************************************************************)
(* The two-way mapping between the URLs of pull requests and comments and   *)
(* the IDs of their Slack channels, messages and files                      *)
(* (data/internal/urls_ids.go, file urls_ids.json).                         *)
(*                                                                          *)
(* A key is a path: a URL or a Slack ID cut at its slashes, as a sequence.  *)
(* The URL of a comment extends the URL of its pull request, the ID of a    *)
(* message the ID of its channel (and of its thread's root), the ID of an   *)
(* uploaded file the ID of its message.  A mapping is a function whose      *)
(* domain is the set of the paths that are keys of the JSON object.         *)
(*                                                                          *)
(* Every operation below runs under the mutex of the file (see FileMutex),  *)
(* so an operation is one atomic change of the mapping.                     *)
(***************************************************************************)
EXTENDS SequencesExt

EmptyMapping == <<>>

(* readGenericJSONFile: a key that is not there reads as an empty string.   *)
NoPath == <<>>

(***************************************************************************)
(* The operations                                                           *)
(***************************************************************************)

(* GetURLAndIDMapping.                                                      *)
Lookup(m, key) == IF key \in DOMAIN m THEN m[key] ELSE NoPath

(* SetURLAndIDMapping: both directions; what either end was mapped to       *)
(* before is left as it was.                                                *)
SetPair(m, url, ids) ==
  [k \in DOMAIN m \cup {url, ids} |->
     IF k = url THEN ids ELSE IF k = ids THEN url ELSE m[k]]

(* key is a proper prefix of path, ending at a slash.                       *)
Under(path, key) == IsStrictPrefix(key, path)

(* DelURLAndIDMapping: the key and the value it has, then the entries whose *)
(* value is the key, then both ends of every entry that has an end under    *)
(* the key.                                                                 *)
NamedByKey(m, key) == {key}
Named(m, key) ==
  {key} \cup {m[k] : k \in {key} \cap DOMAIN m}
        \cup {k \in DOMAIN m : m[k] = key}

DelPath(m, key) ==
  LET rest  == DOMAIN m \ Named(m, key)
      below == {k \in rest : Under(k, key) \/ Under(m[k], key)}
  IN  Restrict(m, rest \ (below \cup {m[k] : k \in below}))

(***************************************************************************)
(* What a mapping promises when no end is ever mapped twice.                *)
(***************************************************************************)
Paired(m) == \A k \in DOMAIN m : m[k] \in DOMAIN m /\ m[m[k]] = k
=============================================================================
