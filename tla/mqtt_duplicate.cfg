\* "All responses received" (pkg/logic/client.go): with a redelivery the
\* client ends without all of them.
SPECIFICATION Spec
CONSTANT Setups <- DuplicateSetups
INVARIANT AllResponsesReceived
CHECK_DEADLOCK FALSE
