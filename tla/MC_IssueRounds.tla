---------------------------- MODULE MC_IssueRounds ----------------------------
(* What agents hand in, for IssueRounds.                                    *)
EXTENDS IssueRounds

MCTopics == {"scope"}

Says_(verdict, items) ==
  [file |-> "object", registered |-> TRUE, verdict |-> verdict, next |-> "unset",
   countRight |-> TRUE, reason |-> FALSE, items |-> items]
Entry(decision, owner, subject) ==
  [asQuestion |-> FALSE, status |-> "open", decision |-> decision, owner |-> owner,
   ownFile |-> FALSE, subject |-> subject]
OpenQuestion(subject) == [Entry("none", "none", subject) EXCEPT !.asQuestion = TRUE]

Passes == [task |-> "done", output |-> "checked", verdict |-> "PASS", next |-> "yes",
           covers |-> TRUE, cites |-> TRUE, report |-> Says_("PASS", <<>>), changes |-> {}]
With(report) == [Passes EXCEPT !.report = report]

NoReport == With([Says_("PASS", <<>>) EXCEPT !.file = "missing"])
Objects  == With([Says_("CHANGES_REQUESTED", <<>>) EXCEPT !.reason = TRUE])
FindsFlaw(owner, subject) == With(Says_("CHANGES_REQUESTED", <<Entry("auto", owner, subject)>>))

\* Agents that fail, and documents and reports that cannot be read.
Failing == {[NoReport EXCEPT !.task = "failed", !.output = "missing"],
            [Passes EXCEPT !.verdict = "unreadable", !.next = "no"]}
\* Form.
Untidy == {NoReport, With(Says_("PASS", <<Entry("none", "none", "bug")>>))}
\* Questions, in and out of order, and one beside a flaw.
Asking == {With(Says_("PASS", <<OpenQuestion("size")>>)),
           With(Says_("BLOCKED", <<Entry("human", "none", "size")>>)),
           With(Says_("BLOCKED", <<Entry("auto", "backend", "bug"),
                                   Entry("human", "product", "scope")>>))}
Flawed == {FindsFlaw("none", "bug"), FindsFlaw("frontend", "scope"),
           [Passes EXCEPT !.verdict = "FAIL", !.next = "no", !.report = Objects.report]}

MCResults == {Passes} \union Failing \union Untidy \union Asking \union Flawed
FormAndFlaws == {Passes, NoReport, Objects, FindsFlaw("none", "bug")}
==============================================================================
