----------------------------- MODULE Versioning -----------------------------
(***************************************************************************)
(* VersionPolicy (dropshot/src/versioning.rs): which API version a request *)
(* asks for.                                                               *)
(***************************************************************************)
EXTENDS Versions

CONSTANT Garbage  \* a header value that is not ASCII or not a semver

\* Policies.  NoVersion stands for a min_version or on_missing not configured.
Unversioned == [kind |-> "Unversioned"]

ClientSpecifiesVersionInHeader(max, min, missing) ==
  [kind |-> "Dynamic", max_version |-> max, min_version |-> min,
   on_missing |-> missing]

Rejected      == [ok |-> FALSE, version |-> NoVersion]
Accepted(v)   == [ok |-> TRUE, version |-> v]

\* Faulty variant: a version that is too new is taken for the newest one.
RequestExtractVersionClamped(policy, header) ==
  IF header = Garbage THEN Rejected
  ELSE IF header = NoVersion
       THEN IF policy.on_missing = NoVersion THEN Rejected
            ELSE Accepted(policy.on_missing)
  ELSE IF header > policy.max_version THEN Accepted(policy.max_version)
  ELSE Accepted(header)

\* ClientSpecifiesVersionInHeader::request_extract_version().  A header that
\* is absent is NoVersion; the limits apply only to a version in the header.
RequestExtractVersion(policy, header) ==
  IF header = Garbage THEN Rejected
  ELSE IF header = NoVersion
       THEN IF policy.on_missing = NoVersion THEN Rejected
            ELSE Accepted(policy.on_missing)
  ELSE IF \/ header > policy.max_version
          \/ policy.min_version # NoVersion /\ header < policy.min_version
       THEN Rejected
  ELSE Accepted(header)

\* VersionPolicy::request_version()
RequestVersion(policy, header) ==
  IF policy = Unversioned THEN Accepted(NoVersion)
  ELSE RequestExtractVersion(policy, header)

=============================================================================
