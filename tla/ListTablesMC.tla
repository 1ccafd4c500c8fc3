---------------------------- MODULE ListTablesMC ----------------------------
(***************************************************************************)
(* ListTables on a database that changes at every tick of the clock.       *)
(***************************************************************************)
EXTENDS ListTables, TLC

Field(id, name, fk) == [id |-> id, name |-> name, required |-> id = 0, fk |-> fk]
Table(name, schema, fields) == [name |-> name, schema |-> schema, fields |-> fields]

Users == Table("users", "app", <<Field(0, "id", <<>>), Field(1, "boss", <<0>>)>>)
Orders == Table("orders", "app", <<Field(2, "id", <<>>), Field(3, "buyer", <<0>>),
                                   Field(4, "seller", <<0>>)>>)
Items == Table("items", "app", <<Field(5, "order", <<2>>), Field(6, "part", <<9>>)>>)

\* Keys forward, backward, to the table itself, two to one field, one to a field
\* that is hidden; the empty database; two tables of one name; a cycle.
MCMetadata ==
  (0 :> <<>>) @@
  (1 :> <<Users>>) @@
  (2 :> <<Orders, Users>>) @@
  (3 :> <<Users, Items, Orders>>) @@
  (4 :> <<Items>>) @@
  (5 :> <<Users, [Users EXCEPT !.schema = "archive", !.fields = <<Field(7, "id", <<0>>)>>]>>) @@
  (6 :> <<Table("a", "app", <<Field(0, "x", <<1>>)>>), Table("b", "app", <<Field(1, "x", <<0>>)>>)>>)

=============================================================================
