-------------------------- MODULE MC_GopTwoGroups --------------------------
(***************************************************************************)
(* Packages in which one declaration is claimed by two groups: the         *)
(* functions A, A__1 and A__a (suffix 'a', index 10) form the implicit     *)
(* group A, and the constant Gopo_A__a = "" makes A__a the self member of  *)
(* the explicit group A__a.  Every subset, with and without the marker.   *)
(***************************************************************************)
EXTENDS GopRender

CONSTANTS A, t1

Fn(tail) ==
  [scope |-> PkgScope, name |-> [stem |-> A, tail |-> tail],
   doc |-> [lead |-> NoLead, text |-> t1], recv |-> NoRecv, first |-> NoParam]

MCDecls == {Fn(<<>>), Fn(<<<<1>>>>), Fn(<<<<10>>>>)}

MCGopos ==
  {[scope |-> PkgScope, name |-> [stem |-> A, tail |-> <<<<10>>>>],
    specs |-> <<[kind |-> "self"]>>]}
=============================================================================
