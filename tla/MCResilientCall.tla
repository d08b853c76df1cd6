--------------------------- MODULE MCResilientCall ---------------------------
(* Two callers and one or two agents; the backoff reaches its cap at the    *)
(* second retry (3, 6 > 4).                                                 *)
EXTENDS ResilientCall

CONSTANTS a1

MCQueries == {<<a1>>}
=============================================================================
