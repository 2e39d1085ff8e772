----------------------------- MODULE MCPreviews -----------------------------
(***************************************************************************)
(* Two branches for TLC, which are sanitised to one schema name.           *)
(* The table a reads the source app.s, written without its schema (a table *)
(* public.s exists too), b reads a, in its FROM clause or in a CTE that it *)
(* declares, and d reads b and c.  The files are loaded in the order of    *)
(* the dependencies or not.                                                *)
(***************************************************************************)
EXTENDS Previews

Public(n) == [schema |-> "public", name |-> n]

S == [schema |-> "app", name |-> "s"]
A == Public("a")
B == Public("b")
C == Public("c")
D == Public("d")

MCProduction == {S, Public("s"), B, C, D}

Reads(from) == [from |-> from, nested |-> {}, declared |-> {}]

MCSchemaOf == [b \in Branch |-> "aqueduct_preview_fix_a"]

Of(t) == CASE t = A -> Reads({Public("s")})
           [] t = B -> [Reads({A}) EXCEPT !.nested = {S}]
           [] t = C -> Reads({S})
           [] t = D -> Reads({B, C})

Loaded(order, query) ==
  [sources |-> {S}, order |-> order, query |-> [t \in Tables([order |-> order]) |-> query[t]]]

Queries == [t \in {A, B, C, D} |-> Of(t)]

OverCte == [from |-> {S}, nested |-> {A}, declared |-> {A}]

MCFiles ==
  {Loaded(<<A, B, C, D>>, Queries),
   Loaded(<<A, B>>, [Queries EXCEPT ![A] = Reads({S}), ![B] = OverCte]),
   Loaded(<<B, A>>, Queries)}

=============================================================================
