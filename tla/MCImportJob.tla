----------------------------- MODULE MCImportJob -----------------------------
(* Small instances of ImportJob. *)
EXTENDS ImportJob, TLC

CONSTANTS j1, j2, r1, r2

Symmetry == Permutations(Requests)

\* One block between separators; a file whose second record repeats the text
\* of the first and comes with tags; objects, one of them broken; a file that
\* cannot be read.
Notes == [format |-> "txt", source |-> "s", lines |-> <<"---", "a", "", "---">>]
Table == [format |-> "csv", source |-> "s",
          lines |-> <<Cells(<<"id", "text", "tag">>), Cells(<<"e1", "b">>), Cells(<<"", "b", "t">>)>>]
Lines == [format |-> "jsonl", source |-> "s",
          lines |-> <<Object([content |-> "a"]), Blank, Malformed>>]
Bad == [format |-> "csv", source |-> "s",
        lines |-> <<Cells(<<"lat">>), Malformed>>]
SmallTexts == {Notes, Table, Lines, Bad}
OneSingle == {[id |-> <<"single", 1>>, ext |-> "e1", hash |-> <<"a">>]}

\* A commit that is running is sent again, or the job is cancelled meanwhile.
CommitsOverlap == {"listing", "committing"} \X {"listing", "cancelling"}

\* The blocks of every plain text of up to five lines keep its lines.
PlainTexts == UNION {[1 .. n -> {"a", "b", "", Separator}] : n \in 0 .. 5}

ASSUME BlocksKeepWords ==
  \A lines \in PlainTexts :
    LET parsed == ParsePlain(lines).rows
    IN /\ TextKept([format |-> "plain_text", lines |-> lines], parsed)
       /\ \A n \in DOMAIN parsed : parsed[n].content # <<>>
=============================================================================
