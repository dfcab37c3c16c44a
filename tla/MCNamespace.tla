---------------------------- MODULE MCNamespace ----------------------------
EXTENDS NamespaceProps

(* "m", "m--p", "m/p" and "s/p": one pair nested, one with the same mapper  *)
(* name, and a vault apart from them                                        *)
Mixed == <<<<<<"m">>>>, <<<<"m", "-", "-", "p">>>>, <<<<"m">>, <<"p">>>>, <<<<"s">>, <<"p">>>>>>

(* "m" and "m/p" *)
Inner == <<<<<<"m">>>>, <<<<"m">>, <<"p">>>>>>
=============================================================================
