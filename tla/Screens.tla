------------------------------ MODULE Screens ------------------------------
(***************************************************************************)
(* What each page of CCM-Frontend asks the services for, and when: the     *)
(* part in which the pages differ.  Module Pages is the rest, the life     *)
(* they share.  A page is                                                  *)
(*                                                                         *)
(*   ...List      how its table is loaded (the effect and the handlers)    *)
(*   ...Table     what stays usable while it loads (the markup)            *)
(*   ...Actions   what can be done to a row (the handlers)                 *)
(*   ...Buttons   which of that is disabled meanwhile (the markup)         *)
(*   ...Detail    how one row is looked at more closely                    *)
(*                                                                         *)
(* Columns, labels, colours and the validation of inputs are left out.     *)
(***************************************************************************)
EXTENDS Sequences

----------------------------------------------------------------------------
(* Loading.  A page asks again when a watched field changes (the page      *)
(* number if it "turns", its filters), or when a handler does so itself.   *)
(* Typed fields are not watched: they are "sent" with each question, or    *)
(* make one of their own ("lookup").                                       *)

Load == [filters |-> {},      \* a change of filter "keeps" or "rewinds" the page
         typed |-> "none",    \* "none", "sent", "lookup"
         search |-> "none",   \* its button: "reload", "rewind", "lookup"
         clears |-> {},       \* what the button that clears resets
         refresh |-> "none",  \* its button: "free", "quiet" if disabled while loading,
                              \* "aside" if it leaves the rows in sight
         polls |-> FALSE,     \* asks again every 30 s
         failure |-> "keeps"] \* what a failed answer leaves of the rows

(* What a spinner replaces while the table loads: the "page", the "table"  *)
(* with its pagination, its "rows", the "first" page, "once" the page and  *)
(* then the rows; and whether pagination "turns" pages and "sizes" them.   *)
Table(hides, pager) == [hides |-> hides, pager |-> pager]
Whole == Table("page", {})

(* Actions.  A button can be disabled while its row ("row") or anything    *)
(* ("any") is being processed, or a "detail" awaited: the one of the row   *)
(* that starts the action, and the one of the dialog that sends it.  A     *)
(* dialog can be held open meanwhile.  A flag kept inside the dialog is    *)
(* lost with it when a spinner replaces the page.                          *)
Buttons(opener, guard) == [opener |-> opener, guard |-> guard, held |-> FALSE, inside |-> FALSE]
Free == Buttons("none", "none")
OneByOne == Buttons("none", "any")
Inside == [OneByOne EXCEPT !.inside = TRUE]
Held == [Inside EXCEPT !.held = TRUE]

(* Where an action starts: in a dialog about a row, in a form about none,  *)
(* or at once, from the row's button.  It asks for the rows again after    *)
(* "success", "always", or "never", when it changes none of them.          *)
Action(starts, buttons, reloads) ==
  [starts |-> starts, buttons |-> buttons, reloads |-> reloads]
InDialog(buttons, reloads) == Action("dialog", buttons, reloads)
InForm(buttons, reloads) == Action("form", buttons, reloads)
AtOnce(buttons, reloads) == Action("row", buttons, reloads)

(* Details.  The dialog opens "first", or "last", with the answer, or it   *)
(* is "local" and asks nothing; a page may "never" have one.  Until the    *)
(* answer it "keeps" showing the row before, "clears" it or "covers" it    *)
(* with a spinner.  A failed answer keeps, clears or "closes".  A row may  *)
(* be "acted" on in the dialog, or asked for "again".                      *)
Detail(opens, before, failure) ==
  [opens |-> opens, before |-> before, failure |-> failure, acts |-> FALSE, again |-> FALSE]
Unasked == Detail("never", "clears", "clears")
Local == [Unasked EXCEPT !.opens = "local"]

Screen(list, table, actions, detail) ==
  [list |-> list, table |-> table, actions |-> actions, detail |-> detail]

----------------------------------------------------------------------------
(* The pages of users.                                                     *)

TripsList == [Load EXCEPT !.refresh = "free"]
TripsTable == Whole
TripsRows == "none"
TripsUploadButtons == OneByOne
TripsUpload == InForm(TripsUploadButtons, "success")
TripsActions == <<TripsUpload, AtOnce(Buttons("none", TripsRows), "success")>>
TripsListingDialog == Buttons(TripsRows, "none")
TripsListing == InDialog(TripsListingDialog, "success")
TripsDialog == "covers"
TripsDetail == [Detail("first", TripsDialog, "closes") EXCEPT !.acts = TRUE]
Trips == Screen(TripsList, TripsTable, Append(TripsActions, TripsListing), TripsDetail)

ListingsList == Load
ListingsTable == Whole
ListingsCreateDialog == Free
ListingsCreate == InForm(ListingsCreateDialog, "success")
ListingsBuyDialog == Buttons("none", "detail")
ListingsBuy == InDialog(ListingsBuyDialog, "success")
BidButtons == Inside
Bid == InDialog(BidButtons, "success")
(* What it asks for is the buyer's balance, which the purchase awaits.     *)
ListingsDetail == Detail("first", "clears", "clears")
Listings == Screen(ListingsList, ListingsTable, <<ListingsCreate, ListingsBuy, Bid>>, ListingsDetail)

MyListingsList == [Load EXCEPT !.refresh = "free"]
MyListingsTable == Whole
MyListingsButtons == OneByOne
MyListingsCreate == InForm(MyListingsButtons, "success")
MyListingsRows == "none"
MyListingsEditDialog == Buttons(MyListingsRows, "none")
MyListingsUpdate == InDialog(MyListingsEditDialog, "success")
MyListingsCancel == AtOnce(Buttons("none", MyListingsRows), "success")
MyListingsBids == "keeps"
MyListingsDetail == Detail("first", MyListingsBids, "keeps")
MyListings == Screen(MyListingsList, MyListingsTable,
                     <<MyListingsCreate, MyListingsUpdate, MyListingsCancel>>, MyListingsDetail)

WalletList == [Load EXCEPT !.failure = "clears"]
WalletTable == Whole
WalletDialogs == Free
WalletDeposit == InForm(WalletDialogs, "success")
(* Its button is disabled, but Enter sends the password again.             *)
ConfirmButtons == Free
WalletConfirm == InForm(ConfirmButtons, "success")
Wallet == Screen(WalletList, WalletTable, <<WalletDeposit, WalletConfirm>>, Unasked)

KycList == Load
KycTable == Whole
KycButtons == OneByOne
KycUpload == InForm(KycButtons, "success")
KycRows == "none"
KycDelete == AtOnce(Buttons("none", KycRows), "success")
KycPreview == Local
Kyc == Screen(KycList, KycTable, <<KycUpload, KycDelete>>, KycPreview)

PaymentsList == [Load EXCEPT !.filters = {"rewinds"}, !.failure = "clears"]
PaymentsPager == {"turns"}
PaymentsTable == Table("page", PaymentsPager)
PaymentsButtons == Free
PaymentsInitiate == InForm(PaymentsButtons, "success")
PaymentsRows == "none"
PaymentsCancel == AtOnce(Buttons("none", PaymentsRows), "success")
PaymentsDialog == "last"
PaymentsDetail == Detail(PaymentsDialog, "keeps", "keeps")
Payments == Screen(PaymentsList, PaymentsTable, <<PaymentsInitiate, PaymentsCancel>>, PaymentsDetail)

CreditsList == [Load EXCEPT !.refresh = "free"]
CreditsTable == Whole
CreditsButtons == OneByOne
CreditsTransfer == InForm(CreditsButtons, "success")
Credits == Screen(CreditsList, CreditsTable, <<CreditsTransfer>>, Unasked)

CertificatesList == Load
CertificatesTable == Whole
CertificatesRows == "row"
CertificatesDownload == AtOnce(Buttons("none", CertificatesRows), "never")
Certificates == Screen(CertificatesList, CertificatesTable, <<CertificatesDownload>>, Unasked)

TransactionsList == [Load EXCEPT !.failure = "clears"]
TransactionsTable == Whole
TransactionsDetail == Local
Transactions == Screen(TransactionsList, TransactionsTable, <<>>, TransactionsDetail)

MyBidsList == Load
MyBidsTable == Whole
MyBids == Screen(MyBidsList, MyBidsTable, <<>>, Unasked)

DashboardList == Load
DashboardTable == Whole
Dashboard == Screen(DashboardList, DashboardTable, <<>>, Unasked)

ProfileList == Load
ProfileTable == Table("never", {})
ProfileButtons == [OneByOne EXCEPT !.held = TRUE]
ProfileSave == InForm(ProfileButtons, "never")
ChangePasswordButtons == Held
ChangePassword == InForm(ChangePasswordButtons, "never")
Profile == Screen(ProfileList, ProfileTable, <<ProfileSave, ChangePassword>>, Unasked)

PreferencesList == Load
PreferencesButtons == OneByOne
PreferencesSave == InForm(PreferencesButtons, "never")
Preferences == Screen(PreferencesList, Whole, <<PreferencesSave>>, Unasked)

(* The menu under the bell of every page.  What the socket pushes is among *)
(* the latest notifications, as an answer would have it.                   *)
BellList == Load
BellTable == Table("rows", {})
BellMarkAsRead == AtOnce(Free, "success")
BellMarkAllAsRead == InForm(Free, "success")
Bell == Screen(BellList, BellTable, <<BellMarkAsRead, BellMarkAllAsRead>>, Unasked)

----------------------------------------------------------------------------
(* The pages of verifiers.                                                 *)

VerificationsList == Load
VerificationsTable == Whole
VerificationsRows == "none"
VerificationsButtons == Buttons(VerificationsRows, "any")
VerificationsDecide == InDialog(VerificationsButtons, "success")
Verifications == Screen(VerificationsList, VerificationsTable, <<VerificationsDecide>>, Unasked)

CVACertificatesList == [Load EXCEPT !.filters = {"rewinds"}, !.refresh = "quiet"]
CVACertificatesTable == Table("first", {"turns"})
CVACertificatesRows == "none"
CVACertificatesButtons == Buttons(CVACertificatesRows, "any")
CVACertificatesActions == <<InDialog(CVACertificatesButtons, "success"),
                           InForm(CVACertificatesButtons, "success")>>
CVACertificatesDownload == AtOnce(Free, "never")
CVACertificates == Screen(CVACertificatesList, CVACertificatesTable,
                          Append(CVACertificatesActions, CVACertificatesDownload), Unasked)

CVAReportsList == [Load EXCEPT !.typed = "sent", !.search = "reload"]
CVAReportsTable == Whole
CVAReportsButtons == OneByOne
CVAReportsExport == InForm(CVAReportsButtons, "never")
CVAReports == Screen(CVAReportsList, CVAReportsTable, <<CVAReportsExport>>, Unasked)

----------------------------------------------------------------------------
(* The pages of administrators.                                            *)

UsersList == [Load EXCEPT !.filters = {"keeps"}, !.typed = "sent",
                          !.search = "rewind", !.refresh = "free"]
UsersTable == Table("table", {"turns", "sizes"})
UsersRows == "none"
UsersButtons == Buttons(UsersRows, "none")
UsersActions == <<InDialog(UsersButtons, "success"), AtOnce(Buttons("none", UsersRows), "success")>>
UserDetailButtons == Inside
UserDetailSave == InDialog(UserDetailButtons, "success")
UsersHistoryDialog == "covers"
UsersHistory == Detail("first", UsersHistoryDialog, "keeps")
Users == Screen(UsersList, UsersTable, Append(UsersActions, UserDetailSave), UsersHistory)

AdminKycList == [Load EXCEPT !.filters = {"rewinds"}, !.refresh = "free"]
AdminKycTable == Table("table", {"turns", "sizes"})
AdminKycRows == "row"
AdminKycApprove == AtOnce(Buttons("none", AdminKycRows), "success")
AdminKycButtons == Buttons(AdminKycRows, "any")
AdminKycReject == InDialog(AdminKycButtons, "success")
AdminKycPreview == Local
AdminKyc == Screen(AdminKycList, AdminKycTable, <<AdminKycApprove, AdminKycReject>>, AdminKycPreview)

WithdrawalsList == [Load EXCEPT !.filters = {"keeps"}, !.refresh = "free"]
WithdrawalsTable == Table("table", {})
WithdrawalsRows == "row"
WithdrawalsButtons == Buttons(WithdrawalsRows, "any")
WithdrawalsActions == <<InDialog(WithdrawalsButtons, "success")>>
Withdrawals == Screen(WithdrawalsList, WithdrawalsTable, WithdrawalsActions, Unasked)

AdminTransactionsList == [Load EXCEPT !.typed = "sent", !.search = "rewind", !.refresh = "free",
                                      !.clears = {"page", "text"}, !.failure = "clears"]
AdminTransactionsTable == Table("table", {"turns", "sizes"})
(* The buttons that confirm, cancel, refund and resolve are commented out. *)
AdminTransactionsRows == <<>>
AdminTransactionsHistory == Detail("first", "clears", "clears")
AdminTransactions == Screen(AdminTransactionsList, AdminTransactionsTable, AdminTransactionsRows,
                            AdminTransactionsHistory)

AdminWalletsList == [Load EXCEPT !.typed = "sent", !.search = "rewind", !.refresh = "free",
                                 !.clears = {"page", "text"}]
AdminWalletsPager == {"turns", "sizes"}
AdminWalletsTable == Table("table", AdminWalletsPager)
AdminWalletsButtons == OneByOne
AdminWalletsAdjust == InForm(AdminWalletsButtons, "success")
AdminWalletsDialog == Detail("first", "covers", "clears")
AdminWalletsDetail == [AdminWalletsDialog EXCEPT !.again = TRUE]
AdminWallets == Screen(AdminWalletsList, AdminWalletsTable, <<AdminWalletsAdjust>>, AdminWalletsDetail)

AdminCreditsList == [Load EXCEPT !.typed = "lookup", !.search = "lookup",
                                 !.clears = {"text"}, !.failure = "clears"]
AdminCreditsTable == Table("rows", {"turns", "sizes"})
AdminCreditsRows == "none"
AdminCreditsButtons == Buttons(AdminCreditsRows, "any")
AdminCreditsAdjust == InDialog(AdminCreditsButtons, "success")
AdminCredits == Screen(AdminCreditsList, AdminCreditsTable, <<AdminCreditsAdjust>>, Unasked)

AdminListingsList == [Load EXCEPT !.filters = {"keeps"}, !.typed = "sent", !.search = "rewind",
                                  !.clears = {"page", "pick", "text"}, !.failure = "clears"]
AdminListingsTable == Table("rows", {"turns", "sizes"})
AdminListingsRows == "none"
AdminListingsButtons == Buttons(AdminListingsRows, "any")
AdminListingsActions == <<InDialog(AdminListingsButtons, "success")>>
AdminListingsDetail == Local
AdminListings == Screen(AdminListingsList, AdminListingsTable, AdminListingsActions, AdminListingsDetail)

ListingTransactionsList == [Load EXCEPT !.filters = {"keeps"}, !.typed = "lookup", !.search = "lookup",
                                        !.clears = {"pick", "text"}, !.failure = "clears"]
ListingTransactionsPager == {"turns", "sizes"}
ListingTransactionsTable == Table("rows", ListingTransactionsPager)
ListingTransactionsDetail == Local
ListingTransactions == Screen(ListingTransactionsList, ListingTransactionsTable, <<>>,
                              ListingTransactionsDetail)

OverridesList == [Load EXCEPT !.filters = {"rewinds"}]
OverridesTable == Table("rows", {"turns"})
OverridesRows == "none"
OverridesButtons == Buttons(OverridesRows, "none")
OverridesActions == <<InDialog(OverridesButtons, "success"), InForm(OverridesButtons, "success")>>
OverridesDetail == Detail("last", "keeps", "keeps")
Overrides == Screen(OverridesList, OverridesTable, OverridesActions, OverridesDetail)

AdminsList == Load
AdminsTable == Table("rows", {})
AdminsRows == "none"
AdminsDialog == Buttons(AdminsRows, "none")
AdminsSubmit == InForm(AdminsDialog, "success")
AdminsLock == AtOnce(Buttons("none", AdminsRows), "success")
AdminsUnlock == AtOnce(Buttons("none", AdminsRows), "always")
AdminsDetail == Detail("last", "keeps", "keeps")
Admins == Screen(AdminsList, AdminsTable, <<AdminsSubmit, AdminsLock, AdminsUnlock>>, AdminsDetail)

AuditLogsList == [Load EXCEPT !.filters = {"keeps"}]
AuditLogsTable == Table("rows", {"turns"})
AuditLogsDetail == Detail("last", "keeps", "keeps")
AuditLogs == Screen(AuditLogsList, AuditLogsTable, <<>>, AuditLogsDetail)

AdminDashboardList == Load
AdminDashboardTable == Whole
AdminDashboard == Screen(AdminDashboardList, AdminDashboardTable, <<>>, Unasked)

ReportsTabs == {"keeps"}
ReportsRefresh == "aside"
ReportsSearch == "reload"
ReportsList == [Load EXCEPT !.filters = ReportsTabs, !.typed = "sent", !.search = ReportsSearch,
                            !.refresh = ReportsRefresh, !.polls = TRUE]
ReportsTable == Table("once", {})
Reports == Screen(ReportsList, ReportsTable, <<>>, Unasked)

----------------------------------------------------------------------------
(* The pages a browser can show, in what makes them different.             *)
Routes ==
  {Trips, Listings, MyListings, Wallet, Kyc, Payments, Credits, Certificates,
   Transactions, MyBids, Dashboard, Profile, Preferences, Bell, Verifications,
   CVACertificates, CVAReports, Users, AdminKyc, Withdrawals,
   AdminTransactions, AdminWallets, AdminCredits, AdminListings,
   ListingTransactions, Overrides, Admins, AuditLogs, AdminDashboard, Reports}
=============================================================================
