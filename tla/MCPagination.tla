---------------------------- MODULE MCPagination ----------------------------
EXTENDS Pagination

MCIdOf == [n \in Names |-> 10 - n]

\* One key of the sorts of two fields is too long for a token.
MCJsonLen(selector) ==
  IF selector.by = "MtimeName" /\ selector.key = <<2, 3>> THEN 400 ELSE 60

MCLimits == {<<>>, <<0>>, <<1>>, <<9>>}

\* One of them can be read, and names a project that does not exist.
MCStray ==
  {[len |-> 20, form |-> "not base64", v |-> "", page_start |-> <<>>],
   [len |-> 20, form |-> "not json", v |-> "", page_start |-> <<>>],
   [len |-> 80, form |-> "token", v |-> "v2", page_start |-> <<>>],
   [len |-> 600, form |-> "token", v |-> "v1", page_start |-> <<>>],
   [len |-> 80, form |-> "token", v |-> "v1",
    page_start |-> <<[by |-> "MtimeName", order |-> "Descending", key |-> <<2, 0>>]>>]}
=============================================================================
