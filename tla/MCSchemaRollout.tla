-------------------------- MODULE MCSchemaRollout ---------------------------
(* Instances of SchemaRollout for TLC.                                     *)
EXTENDS SchemaRollout

Person == <<"node", "Person">>
Company == <<"node", "Company">>
Knows == <<"edge", "KNOWS">>

Prop(name, type, indexed) == [name |-> name, type |-> type, optional |-> TRUE, indexed |-> indexed]
Required(name, type) == [name |-> name, type |-> type, optional |-> FALSE, indexed |-> TRUE]
Node(key, properties) == [key |-> key, ends |-> <<>>, properties |-> properties]
Edge(to) == [key |-> Knows, ends |-> <<"Person", to>>,
             properties |-> <<Prop("since", <<"Timestamp">>, FALSE)>>]

Age  == Required("age", <<"Int64">>)
Name == Prop("name", <<"String">>, TRUE)
Seen == Prop("seen", <<"Timestamp">>, TRUE)
Score == Prop("score", <<"Float64">>, FALSE)

First   == <<Node(Person, <<Age, Name, Seen>>), Edge("Person")>>
Wider   == <<Node(Company, <<Name>>), Node(Person, <<Score, Age, Name, Seen>>), Edge("Company")>>
Retyped == <<Node(Person, <<Required("age", <<"String">>), Name, Seen>>), Edge("Person")>>
Smaller == <<Node(Person, <<Age>>), Edge("Person")>>
Twice   == <<Node(Person, <<Age, Required("age", <<"Timestamp">>), Name>>), Edge("Person")>>
Others  == <<Node(Person, <<Prop("tags", <<"List", <<"Int64">>>>, TRUE), Prop("at", <<"Vector", 2>>, TRUE),
                            Prop("raw", <<"Bytes">>, TRUE), Prop("ok", <<"Bool">>, TRUE)>>)>>
NoEnd   == <<Node(Person, <<Age>>), Edge("Company")>>
TwoPersons == <<Node(Person, <<Age>>), Node(Person, <<Name>>)>>
LongVector == <<Node(Person, <<Prop("at", <<"Vector", 3>>, FALSE)>>)>>

MCFiles == {First, Wider, Retyped, Smaller, Twice, Others, NoEnd, TwoPersons, LongVector}
TimestampFiles == {First, Smaller}

Row(age, name, seen) == "age" :> age @@ "name" :> name @@ "seen" :> seen
Num(n) == <<"Int64", n>>
Str(n) == <<"String", n>>
Time(n) == <<"Timestamp", n>>
Float(n) == <<"Float64", n>>

P1 == 1 :> Row(Num(1), Str(1), Time(1))
P2 == P1 @@ 2 :> Row(Null, Null, Time(2))
P3 == 1 :> (Row(Num(1), Str(1), Time(1)) @@ "score" :> Float(1))
      @@ 2 :> (Row(Num(2), Str(2), Null) @@ "score" :> Float(NaN))
P4 == 1 :> Row(Str(1), Str(1), Time(1)) @@ 2 :> Row(Null, Str(2), Time(2))
P5 == 1 :> ("tags" :> <<"List", <<Num(1), Null>>>> @@ "at" :> <<"List", <<Float(1), Float(2)>>>>
            @@ "raw" :> <<"Bytes", 1>> @@ "ok" :> <<"Bool", 1>>)
      @@ 2 :> ("tags" :> Null @@ "at" :> Null @@ "raw" :> Null @@ "ok" :> <<"Bool", 0>>)
P6 == 1 :> ("tags" :> <<"List", <<Float(1)>>>> @@ "at" :> <<"List", <<Float(1)>>>>
            @@ "raw" :> <<"Bytes", 1>> @@ "ok" :> <<"Bool", 1>>)
P7 == 1 :> Row(Null, Str(1), Null)

MCContents ==
  Person :> {P1, P2, P3, P4, P5, P6, P7}
  @@ Company :> {<<>>, 5 :> ("name" :> Str(1))}
  @@ Knows :> {7 :> ("since" :> Time(1)), 7 :> ("since" :> Null)}

Lake(person, company, knows) == Person :> person @@ Company :> company @@ Knows :> knows
MCInitialTables ==
  {Lake(P1, NoTable, 7 :> ("since" :> Time(1))), Lake(P2, <<>>, 7 :> ("since" :> Null)),
   Lake(P3, <<>>, 7 :> ("since" :> Time(1))), Lake(P5, NoTable, NoTable)}

\* The string 1 is read as the instant 2, 2 is no instant.
MCTimeOf == 1 :> 2 @@ 3 :> 1
MCLiterals == ({"Int64", "Float64", "String"} \X {1, 2, 3}) \cup ({"Bool"} \X {0, 1})
=============================================================================
