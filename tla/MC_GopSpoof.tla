---------------------------- MODULE MC_GopSpoof ----------------------------
(***************************************************************************)
(* Packages whose doc comments may begin with a line of the sentinel's     *)
(* form: the functions F (doc "overload_func_index:1" then text), F__1 and *)
(* G, no Gopo_* constants, with or without the GopPackage marker.          *)
(***************************************************************************)
EXTENDS GopRender

CONSTANTS F, G, t1

MCDecls ==
  { [scope |-> PkgScope, name |-> [stem |-> F, tail |-> <<>>],
     doc |-> [lead |-> 1, text |-> t1], recv |-> NoRecv, first |-> NoParam],
    [scope |-> PkgScope, name |-> [stem |-> F, tail |-> <<<<1>>>>],
     doc |-> [lead |-> NoLead, text |-> t1], recv |-> NoRecv, first |-> NoParam],
    [scope |-> PkgScope, name |-> [stem |-> G, tail |-> <<>>],
     doc |-> [lead |-> NoLead, text |-> t1], recv |-> NoRecv, first |-> NoParam] }

MCGopos == {}
=============================================================================
