--------------------------- MODULE AroundAccounts ---------------------------
(***************************************************************************)
(* What is kept around the accounts: the portal's admins and their         *)
(* sessions and live events (admin-service), the cards customers pay with, *)
(* the accounts experts are paid into and the plans they may buy           *)
(* (billing-service), their banners (expert-service), and everybody's      *)
(* notifications (notification-service).  None of these reads what another *)
(* writes, except that the status of an admin's account is repeated in     *)
(* AdminSessions.                                                          *)
(***************************************************************************)
EXTENDS Admins, AdminSessions, AdminFeed, Wallet, PayoutAccounts, WebPlans, Banners, Notices

accountVars ==
    <<adminVars, adminSessionVars, feedVars, walletVars, payoutAccountVars, webPlanVars,
      bannerVars, noticeVars>>

BesidesPlansInit ==
    /\ AdminsInit /\ AdminSessionsInit /\ AdminFeedInit
    /\ WalletInit /\ PayoutAccountsInit /\ BannersInit /\ NoticesInit

AccountsInit == BesidesPlansInit /\ WebPlansInit

AdminsMove ==
    /\ AdminsNext
    /\ UNCHANGED <<adminSessionVars, feedVars, walletVars, payoutAccountVars, webPlanVars,
                   bannerVars, noticeVars>>
AdminSessionsMove ==
    /\ AdminSessionsNext
    /\ UNCHANGED <<adminVars, feedVars, walletVars, payoutAccountVars, webPlanVars,
                   bannerVars, noticeVars>>
AdminFeedMove ==
    /\ AdminFeedNext
    /\ UNCHANGED <<adminVars, adminSessionVars, walletVars, payoutAccountVars, webPlanVars,
                   bannerVars, noticeVars>>
WalletMove ==
    /\ WalletNext
    /\ UNCHANGED <<adminVars, adminSessionVars, feedVars, payoutAccountVars, webPlanVars,
                   bannerVars, noticeVars>>
PayoutAccountsMove ==
    /\ PayoutAccountsNext
    /\ UNCHANGED <<adminVars, adminSessionVars, feedVars, walletVars, webPlanVars,
                   bannerVars, noticeVars>>
WebPlansMove ==
    /\ WebPlansNext
    /\ UNCHANGED <<adminVars, adminSessionVars, feedVars, walletVars, payoutAccountVars,
                   bannerVars, noticeVars>>
BannersMove ==
    /\ BannersNext
    /\ UNCHANGED <<adminVars, adminSessionVars, feedVars, walletVars, payoutAccountVars,
                   webPlanVars, noticeVars>>
NoticesMove ==
    /\ NoticesNext
    /\ UNCHANGED <<adminVars, adminSessionVars, feedVars, walletVars, payoutAccountVars,
                   webPlanVars, bannerVars>>

AccountsNext ==
    \/ AdminsMove \/ AdminSessionsMove \/ AdminFeedMove
    \/ WalletMove \/ PayoutAccountsMove \/ WebPlansMove
    \/ BannersMove \/ NoticesMove

AccountsSpec == AccountsInit /\ [][AccountsNext]_accountVars

(***************************************************************************)
(* Rows, Stripe's objects and requests in progress have the shape the      *)
(* schema and the handlers give them (schema.prisma).                      *)
(***************************************************************************)
AccountsTypeOK ==
    /\ AdminsTypeOK /\ AdminSessionsTypeOK /\ AdminFeedTypeOK
    /\ WalletTypeOK /\ PayoutAccountsTypeOK /\ WebPlansTypeOK
    /\ BannersTypeOK /\ NoticesTypeOK
=============================================================================
