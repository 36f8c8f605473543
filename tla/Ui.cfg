SPECIFICATION Spec
CONSTANTS
    Conversations <- MCConversations
    Views <- MCViews
    Homes <- MCHomes
    Budgets <- MCBudgets
CHECK_DEADLOCK FALSE
INVARIANTS ScreensHeal NoFlicker UndoExact
