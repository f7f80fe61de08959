----------------------------- MODULE MCEntities -----------------------------
(* A post with an author and a title, and a user with an "author" as well,  *)
(* and favourites; both may be related to themselves.                      *)
EXTENDS EntitiesSafety

CONSTANTS post, user, text, author, title, favourites

MCPrimitive == {post, user}
MCPlain     == {text}
MCLabel     == {author, title, favourites}
MCLabelsOf  == [p \in {post, user} |-> IF p = post THEN {author, title} ELSE {author, favourites}]
MCRangeOf   == [l \in MCLabel |-> IF l = title THEN {text} ELSE {post, user}]
=============================================================================
