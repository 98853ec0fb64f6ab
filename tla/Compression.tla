---------------------------- MODULE Compression ----------------------------
(***************************************************************************)
(* Response compression (dropshot/src/compression.rs): what a client       *)
(* accepts, which responses are compressed and what that does to their     *)
(* headers.  A header map is a function from names to sequences of values. *)
(***************************************************************************)
EXTENDS Integers, Sequences

CONSTANT MIN_COMPRESS_SIZE

HeaderNames == {"content-type", "content-encoding", "content-length", "content-range",
                "accept-ranges", "vary", "x-request-id", "location", "x-other"}

NoHeaders == [n \in HeaderNames |-> <<>>]

Contains(headers, n) == headers[n] # <<>>

Insert(headers, n, v) == [headers EXCEPT ![n] = <<v>>]

AppendValue(headers, n, v) == [headers EXCEPT ![n] = Append(@, v)]

Values(headers, n) == {headers[n][i] : i \in DOMAIN headers[n]}

IsHeaderMap(headers) ==
  /\ headers = [n \in HeaderNames |-> headers[n]]
  /\ \A n \in HeaderNames : headers[n] \in Seq(Values(headers, n))

-----------------------------------------------------------------------------
(* The request: Accept-Encoding is a set of <<coding, quality>>, over all  *)
(* headers of that name, qualities as percentages and limited to 0..100.   *)

Qualities(accept, coding) == {d[2] : d \in {e \in accept : e[1] = coding}}

\* The best quality of gzip decides, that is, whether there is one above 0;
\* without gzip, the best of "*".
accepts_gzip_encoding(accept) ==
  LET gzip == Qualities(accept, "gzip")
      any  == Qualities(accept, "*")
  IN  \E q \in (IF gzip # {} THEN gzip ELSE any) : q > 0

-----------------------------------------------------------------------------
(* The response: [status, headers, no_compression, body], and its body:    *)
(* [size, exact (is the size known in advance?), coding (the codings that  *)
(* the server applied), message and request_id (both of an error)].        *)

\* Representatives of the prefixes and suffixes that are compared.
CompressibleTypes == {"application/json", "application/x-ndjson", "text/html",
                      "image/svg+xml"}

is_compressible_content_type(headers) ==
  Contains(headers, "content-type") /\ headers["content-type"][1] \in CompressibleTypes

BodilessStatus == (100 .. 199) \cup {204, 304}

\* Faulty variant: a response that has a coding already is compressed again.
should_compress_responseTwice(method, accept, rsp) ==
  /\ rsp.status \notin BodilessStatus \cup {206}
  /\ method # "HEAD"
  /\ ~Contains(rsp.headers, "content-range")
  /\ accepts_gzip_encoding(accept)
  /\ ~rsp.no_compression
  /\ is_compressible_content_type(rsp.headers)

should_compress_response(method, accept, rsp) ==
  /\ rsp.status \notin BodilessStatus \cup {206}
  /\ method # "HEAD"
  /\ ~Contains(rsp.headers, "content-range")
  /\ accepts_gzip_encoding(accept)
  /\ ~Contains(rsp.headers, "content-encoding")
  /\ ~rsp.no_compression
  /\ Contains(rsp.headers, "content-length")
       => rsp.headers["content-length"][1] >= MIN_COMPRESS_SIZE
  /\ is_compressible_content_type(rsp.headers)

\* Faulty variant: nothing is added where any Vary header is.
add_vary_headerIfNone(headers) ==
  IF Contains(headers, "vary") THEN headers
  ELSE AppendValue(headers, "vary", "accept-encoding")

add_vary_header(headers) ==
  IF {"*", "accept-encoding"} \cap Values(headers, "vary") # {} THEN headers
  ELSE AppendValue(headers, "vary", "accept-encoding")

\* A short body of known size stays as it is.
apply_gzip_compression(rsp) ==
  IF rsp.body.exact /\ rsp.body.size < MIN_COMPRESS_SIZE THEN rsp
  ELSE [rsp EXCEPT
          !.body.coding = Append(@, "gzip"),
          !.body.exact = FALSE,
          !.headers = [add_vary_header(Insert(@, "content-encoding", "gzip"))
                         EXCEPT !["accept-ranges"] = <<>>, !["content-length"] = <<>>]]

=============================================================================
