SPECIFICATION Spec
CONSTANTS
    Controller = Controller
    Mailbox = Mailbox
    Diagnostics = Diagnostics
    Gui = Gui
    Owner = Owner
    worker = worker
    Clients <- Worker
    MaxRequests = 3
    MaxCalls = 2
INVARIANT OnlyTimeoutsClose
PROPERTY FinalIsFinal
CHECK_DEADLOCK FALSE
