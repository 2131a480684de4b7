---------------------------- MODULE MCPdfDocument ----------------------------
(* A file whose two pages and two forms share images, forms and resource   *)
(* dictionaries, one of which has a name that the writer would choose, and *)
(* with fields of one name; and a small file to merge it with.             *)
EXTENDS PdfDocument

Do(name) == Instruction("Do", name)
Words(text) ==
  <<Instruction("BT", <<>>), Instruction("Tj", <<text>>), Instruction("ET", <<>>)>>
Place(name) ==
  <<Instruction("q", <<>>), Instruction("cm", <<>>), Do(name), Instruction("Q", <<>>)>>

Im == <<"Im", 1>>
Edited == <<"IiEdited", 5>>
Fm(n) == <<"Fm", n>>

Field(name, page, constrained) ==
  [name |-> name, page |-> page, constrained |-> constrained, value |-> "x"]

Shared ==
  [pages |->
     <<[stream |-> Place(Im) \o <<Do(Fm(2))>>, dict |-> 1, notes |-> <<>>, rotation |-> 270],
       [stream |-> <<Do(Edited), Do(Fm(2)), Do(Fm(1))>>, dict |-> 1, notes |-> <<"x">>,
        rotation |-> 0]>>,
   forms |->
     <<[stream |-> Words("x") \o <<Do(Fm(1))>>, dict |-> 2],
       [stream |-> <<Do(Im), Do(Fm(1))>>, dict |-> 1]>>,
   dicts |->
     <<(Im :> Image("p")) @@ (Edited :> Image("r")) @@ (Fm(1) :> Form(1)) @@ (Fm(2) :> Form(2)),
       (Fm(1) :> Form(1))>>,
   fields |-> <<Field(<<"a">>, 1, FALSE), Field(<<"b">>, 2, TRUE),
                Field(<<"c">>, 1, FALSE), Field(<<"c">>, 2, FALSE)>>,
   info |-> [Title |-> "x", Trapped |-> "x"],
   ledger |-> 0]

Small ==
  [pages |-> <<[stream |-> Place(Im), dict |-> 1, notes |-> <<>>, rotation |-> 0]>>,
   forms |-> <<>>, dicts |-> <<(Im :> Image("q"))>>,
   fields |-> <<Field(<<"a">>, 1, FALSE)>>,
   info |-> [Title |-> "y"], ledger |-> 1]

MCSource == {Shared, Small}
=============================================================================
