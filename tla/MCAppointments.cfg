SPECIFICATION Spec
CONSTANTS
    a1 = a1  a2 = a2  p1 = p1  p2 = p2
    None = None
    Appointments <- MCAppointments
    Order <- MCOrder
    PhoneOf <- MCPhoneOf
    PageSize = 1
    MaxInFlight = 2
    MaxPage = 1
    MaxAnswers = 3
    MaxEarly = 1
    MayFail = {"list", "more", "pay", "resend", "modify"}
INVARIANTS
    TypeOK
    CodeOfTheCustomer SettledListHasNoGap SettledListAgrees
PROPERTIES CompletedObjectStays 
