----------------------------- MODULE MCOpenApi ------------------------------
EXTENDS OpenApi

\* A name is letters followed by digits.
RECURSIVE Decimal(_)
Decimal(num) == IF num < 10 THEN <<num>> ELSE Append(Decimal(num \div 10), num % 10)

MCNumbered(name, num) == <<name[1], name[2] \o Decimal(num)>>

T(id, letters, digits, deps) == [id |-> id, name |-> <<letters, digits>>, deps |-> deps]

ErrorA == T(1, "Error", <<>>, <<>>)
ErrorB == T(2, "Error", <<>>, <<>>)
Error2 == T(3, "Error", <<2>>, <<>>)
Sort   == T(4, "Sort", <<>>, <<>>)
SortB  == T(5, "Sort", <<>>, <<>>)
Key    == T(7, "Key", <<>>, <<SortB>>)    \* a newtype with a comment: allOf of the other
Item   == T(6, "Item", <<>>, <<Sort, ErrorA>>)

Gen(type)    == [kind |-> "Gen", type |-> type]
Static(type) == [kind |-> "Static", type |-> type]
Empty        == [kind |-> "Empty", type |-> Item]

Plain == [visible |-> TRUE, method |-> "GET", tags |-> <<>>, parameters |-> <<>>, body |-> <<>>,
          response |-> <<Empty>>, headers |-> <<>>, success |-> TRUE, error |-> None]

MCEndpoints ==
  {[Plain EXCEPT !.error = Gen(ErrorA), !.tags = <<"pets", "new">>],
   [Plain EXCEPT !.error = Static(ErrorB), !.parameters = <<Static(Sort)>>],
   [Plain EXCEPT !.error = Gen(ErrorA), !.parameters = <<Static(SortB)>>, !.body = <<Gen(Item)>>],
   [Plain EXCEPT !.error = Static(ErrorB), !.response = <<Gen(Sort)>>, !.headers = <<Static(Key)>>],
   [Plain EXCEPT !.response = <<Gen(SortB)>>, !.parameters = <<Static(Key), Static(SortB)>>],
   [Plain EXCEPT !.response = <<>>, !.success = FALSE, !.error = Static(ErrorB), !.body = <<Empty>>],
   [Plain EXCEPT !.visible = FALSE, !.tags = <<"hidden">>, !.body = <<Gen(SortB)>>],
   [Plain EXCEPT !.method = "CONNECT"]}

\* Error types of which one is called like another with a number appended.
MCNumberedErrors == {[Plain EXCEPT !.error = Gen(t)] : t \in {ErrorA, ErrorB, Error2}}

MCTagConfig == <<"pets", "users">>
=============================================================================
