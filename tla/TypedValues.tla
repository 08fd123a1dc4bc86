---------------------------- MODULE TypedValues -----------------------------
(***************************************************************************)
(* One property value on its way through the engine: the cell of an        *)
(* Iceberg table, the value read from it under the type the schema         *)
(* declares, the key that indexes it, the protobuf message that carries    *)
(* it, the literal it is compared with.                                    *)
(*                                                                         *)
(* A value is <<tag, datum>>, with integers for data of every type; only   *)
(* their order is used.  A literal is written the same way.  Types are     *)
(* tagged too: <<"Int64">>, <<"List", type>>, <<"Vector", dim>>.           *)
(***************************************************************************)
EXTENDS Integers, SequencesExt

CONSTANTS
  NaN,        \* a Float64 datum that compares with nothing
  TimeOf      \* the strings RFC3339 accepts, each with its instant

ASSUME ValuesAssumption ==
  NaN \notin Int /\ \A s \in DOMAIN TimeOf : TimeOf[s] \in Int

Null == <<"Null">>

Simple == {<<"Int64">>, <<"Float64">>, <<"Bool">>, <<"String">>, <<"Timestamp">>, <<"Bytes">>}
IsComposite(type) == type[1] \in {"List", "Vector"}

\* Lists of lists and of vectors, which the grammar allows, are left out.
Type == Simple \cup ({"List"} \X Simple) \cup ({"Vector"} \X Nat)

\* What a column of each type can hold.  There is no literal of type
\* Timestamp or Bytes, and none is NaN.
Scalar ==
  ({"Int64", "Bool", "String", "Timestamp", "Bytes"} \X Int)
    \cup ({"Float64"} \X (Int \cup {NaN}))
Cell    == {Null} \cup Scalar \cup ({"List"} \X Seq({Null} \cup Scalar))
Literal == {"Int64", "Float64", "Bool", "String"} \X Int

----------------------------------------------------------------------------
(* The reader.  An Arrow column has a type of its own, which the tag of a  *)
(* cell shows; the downcast asks it to be the one declared.                *)

Bad == <<"Bad">>

\* read_property_value inside a list or a vector: elements are read one by
\* one, and one of them can fail the row.
ReadElement(cell, type) ==
  IF cell = Null THEN Null ELSE IF cell[1] = type[1] THEN cell ELSE Bad

ReadElements(cell, type) ==
  LET read == [i \in DOMAIN cell[2] |-> ReadElement(cell[2][i], type)]
  IN  IF Bad \in Range(read) THEN Bad ELSE <<"List", read>>

\* A mutant: there is no downcast, a cell is taken as it is stored.
ReadAsStored(cell, type) == cell

\* NULL is Null whatever the schema says.  A Vector is read as a list of
\* Float64, and so is no Vector value any more.
ReadPropertyValue(cell, type) ==
  IF cell = Null THEN Null
  ELSE CASE type[1] = "List" /\ cell[1] = "List"         -> ReadElements(cell, type[2])
         [] type[1] = "Vector" /\ cell[1] = "List"       -> ReadElements(cell, <<"Float64">>)
         [] ~ IsComposite(type) /\ cell[1] = type[1]     -> cell
         [] OTHER                                        -> Bad

----------------------------------------------------------------------------
(* Keys, literals and the wire.                                            *)

NoKey == <<"NoKey">>
PropertyKeyOf(value) ==
  IF value[1] \in {"Int64", "Bool", "String", "Timestamp"} THEN value ELSE NoKey

\* literal_to_property_key panics on a float.
HasKey(literal) == literal[1] # "Float64"
LiteralKey(literal) == literal

\* property_value_to_proto and back: lists and nulls have no message.
Absent == <<"Absent">>
OverTheWire(value) == IF value[1] \in {"List", "Null"} THEN Absent ELSE value

----------------------------------------------------------------------------
(* Comparison.                                                             *)

Ordering == {"Less", "Equal", "Greater"}
Incomparable == "None"

OrderOf(a, b) ==
  IF NaN \in {a, b} THEN Incomparable
  ELSE IF a < b THEN "Less" ELSE IF a = b THEN "Equal" ELSE "Greater"

\* A mutant: the literal of a timestamp is not read as an instant.
ComparedAsWritten(value, literal) ==
  IF value[1] = literal[1] THEN OrderOf(value[2], literal[2]) ELSE Incomparable

Compared(value, literal) ==
  CASE value[1] = "Timestamp" /\ literal[1] = "String" /\ literal[2] \in DOMAIN TimeOf
         -> OrderOf(value[2], TimeOf[literal[2]])
    [] value[1] = literal[1] /\ value[1] \in {"Int64", "Float64", "Bool", "String"}
         -> OrderOf(value[2], literal[2])
    [] OTHER -> Incomparable

CompareOps == {"Eq", "Ne", "Lt", "Lte", "Gt", "Gte"}
Accepted(op) ==
  CASE op = "Eq" -> {"Equal"}   [] op = "Ne"  -> {"Less", "Greater"}
    [] op = "Lt" -> {"Less"}    [] op = "Lte" -> {"Less", "Equal"}
    [] op = "Gt" -> {"Greater"} [] op = "Gte" -> {"Greater", "Equal"}

LiteralMatches(value, op, literal) == Compared(value, literal) \in Accepted(op)

\* The validator's only look at a type: whether the operator fits it.
OperatorCompatible(type, op) ==
  IF op \in {"Eq", "Ne"} THEN ~ IsComposite(type)
  ELSE type[1] \in {"Int64", "Float64", "Timestamp"}
=============================================================================
