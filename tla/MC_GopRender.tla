--------------------------- MODULE MC_GopRender ----------------------------
(***************************************************************************)
(* A package universe for the resolver and the renderer: the functions     *)
(* A, A__0, A__1, A__a (index 10), the literal A__10, A__Z (invalid index  *)
(* character), B (first parameter of type T), C (no parameters), and the   *)
(* methods T.A__1 and T.C; the constants Gopo_A = "B,,C" and               *)
(* Gopo_T_A = ".C,B".  Every subset of them, with and without the          *)
(* GopPackage marker, is an initial package.                               *)
(***************************************************************************)
EXTENDS GopRender

CONSTANTS A, B, C, T, t1, t2

Nm(stem, tail) == [stem |-> stem, tail |-> tail]
Doc(t) == [lead |-> NoLead, text |-> t]
Fn(stem, tail, t, first) ==
  [scope |-> PkgScope, name |-> Nm(stem, tail), doc |-> Doc(t),
   recv |-> NoRecv, first |-> first]
Mth(typ, stem, tail, t) ==
  [scope |-> typ, name |-> Nm(stem, tail), doc |-> Doc(t),
   recv |-> typ, first |-> NoParam]

MCDecls ==
  { Fn(A, <<>>, t1, NoParam),
    Fn(A, <<<<0>>>>, t2, NoParam),
    Fn(A, <<<<1>>>>, t1, NoParam),
    Fn(A, <<<<10>>>>, t2, NoParam),
    Fn(A, <<<<1, 0>>>>, t1, NoParam),
    Fn(A, <<<<BadChar>>>>, t2, NoParam),
    Fn(B, <<>>, t1, T),
    Fn(C, <<>>, t2, NoParam),
    Mth(T, A, <<<<1>>>>, t2),
    Mth(T, C, <<>>, t1) }

MCGopos ==
  { [scope |-> PkgScope, name |-> Nm(A, <<>>),
     specs |-> << [kind |-> "func", name |-> Nm(B, <<>>)],
                  [kind |-> "self"],
                  [kind |-> "func", name |-> Nm(C, <<>>)] >>],
    [scope |-> T, name |-> Nm(A, <<>>),
     specs |-> << [kind |-> "method", name |-> Nm(C, <<>>)],
                  [kind |-> "func", name |-> Nm(B, <<>>)] >>] }
=============================================================================
