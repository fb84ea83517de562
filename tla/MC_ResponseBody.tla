-------------------------- MODULE MC_ResponseBody ---------------------------
(***************************************************************************)
(* Instances of ResponseBody for TLC.                                      *)
(***************************************************************************)
EXTENDS ResponseBody

\* One document of each shape the annotation tells apart: objects without the
\* key, with another value under it and already marked; arrays that are empty,
\* mixed, and nested; a scalar.
SomeDocuments ==
  LET o == Object("absent")
  IN  { o, Object("other"), Object("v0.1"), Scalar, Array(<<>>),
        Array(<<o, Scalar, Object("other")>>), Array(<<Array(<<o>>), o>>) }

=============================================================================
