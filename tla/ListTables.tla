----------------------------- MODULE ListTables -----------------------------
(***************************************************************************)
(* list_tables: the metadata that the cache has for a database, flattened  *)
(* for the model (internal/schema/flatten.go).  The cache keeps what       *)
(* Metabase answered, and every call flattens it anew.                     *)
(*                                                                         *)
(* Text that is only copied or put into lower case is left out.            *)
(***************************************************************************)
EXTENDS TtlCache, Integers, Sequences, FiniteSets

CONSTANT Metadata     \* what Metabase reads at each time, as migrations change it

\* A field has an id, a name, whether it is required, and the id of the field it
\* refers to, if any: fk is <<>> or <<id>>, for 0 is an id too.
RawField == [id : Int, name : STRING, required : BOOLEAN, fk : Seq(Int)]
RawTable == [name : STRING, schema : STRING, fields : Seq(RawField)]

\* Where the fields of an answer are: <<t, f>> is the f-th field of the t-th table.
Places(raw) == UNION {{<<t, f>> : f \in DOMAIN raw[t].fields} : t \in DOMAIN raw}

FieldAt(raw, p) == raw[p[1]].fields[p[2]]

\* In Metabase the ids are the primary key of the fields.
ASSUME MetadataAssumption ==
  /\ Metadata \in [0..MaxTime -> Seq(RawTable)]
  /\ \A time \in 0..MaxTime : \A p, q \in Places(Metadata[time]) :
       /\ Len(FieldAt(Metadata[time], p).fk) =< 1
       /\ FieldAt(Metadata[time], p).id = FieldAt(Metadata[time], q).id => p = q

-----------------------------------------------------------------------------
\* Fault: references are resolved among the tables up to the one at hand.
WithIdSoFar(raw, t, id) == {p \in Places(raw) : FieldAt(raw, p).id = id /\ p[1] =< t}

\* The index of fields is made before any table is written.
WithId(raw, t, id) == {p \in Places(raw) : FieldAt(raw, p).id = id}

\* In the map a later field replaces an earlier one with its id.
LastPlace(P) == CHOOSE p \in P : \A q \in P : q[1] < p[1] \/ (q[1] = p[1] /\ q[2] =< p[2])

\* A reference to a field that is not in the answer, being hidden, is left out.
Linked(raw, t) == {f \in DOMAIN raw[t].fields :
                     LET fk == raw[t].fields[f].fk
                     IN  fk # <<>> /\ WithId(raw, t, fk[1]) # {}}

\* The list of keys, each at the index of its field, in the order of these.
ForeignKeys(raw, t) ==
  [f \in Linked(raw, t) |->
     LET field == raw[t].fields[f]
         target == LastPlace(WithId(raw, t, field.fk[1]))
     IN  [from |-> field.name,
          toTable |-> raw[target[1]].name, toColumn |-> FieldAt(raw, target).name]]

Columns(table) == [f \in DOMAIN table.fields |->
                     [name |-> table.fields[f].name,
                      nullable |-> ~table.fields[f].required]]

Flatten(raw) == [t \in DOMAIN raw |->
                   [name |-> raw[t].name, schema |-> raw[t].schema,
                    columns |-> Columns(raw[t]), foreignKeys |-> ForeignKeys(raw, t)]]

\* What a call of list_tables has to give out.
Raw(c) == Metadata[call[c].val]
Tables(c) == Flatten(Raw(c))

-----------------------------------------------------------------------------
\* A key names its target by the table's name alone, without the schema, and by
\* the column's.
Unambiguous(raw) ==
  /\ \A t, u \in DOMAIN raw : raw[t].name = raw[u].name => t = u
  /\ \A t \in DOMAIN raw : \A f, g \in DOMAIN raw[t].fields :
       raw[t].fields[f].name = raw[t].fields[g].name => f = g

\* From the f-th field of the t-th table to the g-th of the u-th.
Joins(raw) == {j \in Places(raw) \X Places(raw) :
                 FieldAt(raw, j[1]).fk = <<FieldAt(raw, j[2]).id>>}

\* The joins that a reader of the answer can make out: a key of a table, and a
\* column that it can mean.
Readable(out) ==
  LET places == UNION {{<<t, f>> : f \in DOMAIN out[t].columns} : t \in DOMAIN out}
      Name(p) == out[p[1]].columns[p[2]].name
  IN  {j \in places \X places :
         \E k \in DOMAIN out[j[1][1]].foreignKeys :
           LET key == out[j[1][1]].foreignKeys[k]
           IN  /\ key.from = Name(j[1])
               /\ key.toTable = out[j[2][1]].name /\ key.toColumn = Name(j[2])}

\* The joins of the database can be read off the answer, these and no others:
\* also those to a table listed later, to the table itself and from several
\* fields to one, and none to a hidden field.
JoinsSurvive ==
  \A c \in Callers : (At(c, "done") /\ Unambiguous(Raw(c)))
    => /\ Readable(Tables(c)) = Joins(Raw(c))
       /\ \A t \in DOMAIN Raw(c) :
            Cardinality(DOMAIN Tables(c)[t].foreignKeys)
              = Cardinality({j \in Joins(Raw(c)) : j[1][1] = t})

=============================================================================
