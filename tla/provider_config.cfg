\* Two operators, one change: of a schema or the registry, an hour, a crash or a failed call.
SPECIFICATION FairSpec
CONSTANTS
  a = a
  b = b
  s = s
  t = t
  Operators = {a, b}
  Schemas = {s, t}
  None = None
  InitialSchemas <- SameSchema
  InitialActive <- OneOrBoth
  MaxChanges = 1
  LateAdds = TRUE
INVARIANTS TypeOK CompletedJustified NoChatter
PROPERTIES LifecycleSpec EventuallyCompleted
CHECK_DEADLOCK FALSE
