----------------------------- MODULE MCScenario -----------------------------
EXTENDS Scenario
CONSTANTS x, p, q, k

Plain == [type |-> "NOTE", uses |-> {}, captures |-> {}, asserts |-> <<>>, continues |-> FALSE,
          ms |-> 0, path |-> p, matchers |-> <<>>, keys |-> <<>>]
Free(soft) == [target |-> "response", op |-> "equals", n |-> 0, soft |-> soft]
Count(op, n) == [target |-> "count", op |-> op, n |-> n, soft |-> FALSE]
LastSeen == [target |-> "last", op |-> "exists", n |-> 0, soft |-> FALSE]
M(path, header, min, max) == [path |-> path, header |-> header, min |-> min, max |-> max]

Request == [Plain EXCEPT !.type = "REQUEST"]
Verify == [Plain EXCEPT !.type = "VERIFY_REQUESTS"]
Ordered == [Plain EXCEPT !.type = "VERIFY_SEQUENCE"]
Expect == [Plain EXCEPT !.type = "EXPECT_WEBHOOK", !.ms = 2, !.captures = {x}, !.continues = TRUE]

CheckSteps ==
  {Plain,
   [Request EXCEPT !.asserts = <<Free(FALSE), Free(TRUE)>>],
   [Request EXCEPT !.captures = {x}, !.continues = TRUE],
   [Request EXCEPT !.uses = {x}, !.captures = {x}],
   [Plain EXCEPT !.type = "WAIT", !.ms = 1],
   [Plain EXCEPT !.type = "WAIT", !.asserts = <<Free(FALSE)>>],
   Expect,
   [Plain EXCEPT !.type = "INJECT_FAULT"],
   [Plain EXCEPT !.type = "CLEAR_FAULT"],
   [Plain EXCEPT !.type = "SEED_STATE", !.keys = <<k>>],
   [Plain EXCEPT !.type = "ASSERT_STATE", !.uses = {x}, !.asserts = <<Free(FALSE)>>],
   [Plain EXCEPT !.type = "EMIT_WEBHOOK", !.uses = {x}],
   [Verify EXCEPT !.asserts = <<Count("equals", 1)>>, !.continues = TRUE],
   [Ordered EXCEPT !.matchers = <<M(p, FALSE, None, None), M(p, FALSE, 1, 2)>>]}

VerifySteps ==
  {Expect,
   [Request EXCEPT !.captures = {x}],
   [Verify EXCEPT !.asserts = <<Count("lte", 1), LastSeen>>, !.uses = {x}],
   [Verify EXCEPT !.asserts = <<Count("equals", 1)>>],
   [Verify EXCEPT !.asserts = <<Count("gte", 2)>>, !.continues = TRUE],
   [Ordered EXCEPT !.matchers = <<M(p, TRUE, None, None), M(q, FALSE, None, None)>>],
   [Ordered EXCEPT !.matchers = <<M(p, FALSE, None, None), M(p, FALSE, 1, 1)>>]}

MCMenu == [m \in Modes |-> IF m = "check" THEN CheckSteps ELSE VerifySteps]
MCMaxSteps == [m \in Modes |-> IF m = "check" THEN 4 ELSE 1]
MCAppRequest ==
  {[path |-> p, header |-> TRUE, large |-> FALSE, scoped |-> TRUE],
   [path |-> p, header |-> TRUE, large |-> TRUE, scoped |-> FALSE],
   [path |-> q, header |-> FALSE, large |-> FALSE, scoped |-> TRUE]}
=============================================================================
