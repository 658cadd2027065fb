SPECIFICATION Spec
CONSTANTS
  nav = nav
  sub = sub
  start = start
  target = target
  Requests = {nav, sub}
  Urls = {start, target}
  Chain <- MCChain
  Framed = {sub}
  Navigations = {nav}
  Stories <- MCStories
INVARIANTS OneObject Linked HeadersBelong
PROPERTIES EverythingSettles
CHECK_DEADLOCK FALSE
